---- MODULE Spec2Model ----
(***************************************************************************)
(* Model of the IBMOLS multi-objective knapsack engine.                    *)
(*                                                                         *)
(*   mokp core      src/unnamed/part_003   (evaluate, extractPtoArchive,   *)
(*                                          choose_weight, local search)   *)
(*   mokp wrappers  src/mokp_dll.c, src/unnamed/part_004                   *)
(*   knapsack core  src/unnamed/part_001   (second copy of the core and    *)
(*                                          knapsack_solve)                *)
(*                                                                         *)
(* C arrays are functions on 0..n-1, as in the source.  A population's     *)
(* ind_array is a sequence: the C slot ind_array[i] is element i+1.        *)
(***************************************************************************)
EXTENDS Integers, Sequences, FiniteSets, TLC

\* ------------------------------------------------------------------ bounds
\* nf: number of objectives (default of the library).
NF == 2
\* ni: number of items of the problems explored.
NI == 3

ObjIdx  == 0 .. NF - 1
ItemIdx == 0 .. NI - 1

VARIABLES
    capacities,   \* double capacities[nf]
    weights,      \* int weights[nf][ni]
    profits,      \* int profits[nf][ni]
    ex,           \* the individual handed to evaluate
    epc,          \* "fresh" before the call, "evaluated" after it
    mem,          \* the heap, cell by cell: structs and the arrays they point to
    slot,         \* the two ind* the copy scenario holds (NULL when not held)
    cop,          \* the last operation of the copy scenario and the slot it acted on
    P,            \* pop *P: the main Pareto archive
    solutions,    \* pop *solutions: the working population
    fold,         \* the last call of extractPtoArchive: its inputs and what it did
    fpc,          \* where the fold scenario stands
    OBJ_Weights,  \* double OBJ_Weights[dimension][...]: the table of weight vectors
    nombreLIGNE,  \* the number of rows read_weights_file loaded
    nextLn,       \* the cursor of dynamic_weight_allpop
    vector_weight,\* double vector_weight[dimension]
    calls,        \* how many times choose_weight has been called
    kheap,        \* knapsack core: the individuals on the heap, by address
    ksol,         \* knapsack_solve: pop *solutions
    karch,        \* knapsack_solve: pop *archive
    kpar,         \* knapsack_solve: params (population_size, max_iterations)
    kiter,        \* knapsack_solve: iter
    kinit,        \* the population as random_init_pop left it
    kres,         \* the return code and *result
    kpc,          \* where the call of knapsack_solve stands
    archive,      \* pop *archive: the archive of one generation
    trial,        \* Indicator_local_search1: the trial x
    cur,          \* Indicator_local_search1: the cursors i and j
    step,         \* Indicator_local_search1: mino, IM, remplace, taille
    convergence,  \* Indicator_local_search1: convergence
    gen,          \* the number of generations run
    lpc,          \* where mokp_run_single_iteration stands
    cmp,          \* the comparison scenario: a, b and what the two comparators returned
    sel,          \* the selection scenario: the indicator table, SP, x and what compute_fitness_and_select did
    lib,          \* the library's globals and the last call made (mokp_dll.c)
    wr,           \* the wrapper's state flags, parameters and the last call made (part_004)
    af,           \* a fold during which allocations fail (extractPtoArchive, both cores)
    gl,           \* the generation loop of a run (mokp_run_optimization, RunOptimization)
    sw,           \* the sweep loop of Indicator_local_search1 over a working population
    ip            \* a call of P_init_pop: the archive, alpha and the population it filled

problemVars == <<capacities, weights, profits>>
evalVars    == <<ex, epc>>
copyVars    == <<mem, slot, cop>>
foldVars    == <<P, solutions, fold, fpc>>
weightVars  == <<OBJ_Weights, nombreLIGNE, nextLn, vector_weight, calls>>
solveVars   == <<kheap, ksol, karch, kpar, kiter, kinit, kres, kpc>>
searchVars  == <<archive, trial, cur, step, convergence, gen, lpc>>
vars        == <<capacities, weights, profits, ex, epc, mem, slot, cop,
                 P, solutions, fold, fpc,
                 OBJ_Weights, nombreLIGNE, nextLn, vector_weight, calls,
                 kheap, ksol, karch, kpar, kiter, kinit, kres, kpc,
                 archive, trial, cur, step, convergence, gen, lpc,
                 cmp,
                 sel,
                 lib,
                 wr,
                 af,
                 gl,
                 sw,
                 ip>>

\* What each scenario leaves alone.
restOfEval    == <<copyVars, foldVars, weightVars, solveVars, searchVars, cmp, sel, lib, wr, af, gl, sw, ip>>
restOfCopy    == <<evalVars, foldVars, weightVars, solveVars, searchVars, cmp, sel, lib, wr, af, gl, sw, ip>>
restOfFold    == <<evalVars, copyVars, weightVars, solveVars, searchVars, cmp, sel, lib, wr, af, gl, sw, ip>>
restOfWeights == <<evalVars, copyVars, foldVars, solveVars, searchVars, cmp, sel, lib, wr, af, gl, sw, ip>>
restOfSolve   == <<evalVars, copyVars, foldVars, weightVars, searchVars, cmp, sel, lib, wr, af, gl, sw, ip>>
restOfSearch  == <<evalVars, copyVars, solveVars, fold, fpc, OBJ_Weights, nombreLIGNE, calls, cmp, sel, lib, wr, af, gl, sw, ip>>
restOfCompare == <<evalVars, copyVars, foldVars, weightVars, solveVars, searchVars, sel, lib, wr, af, gl, sw, ip>>
restOfSelect == <<evalVars, copyVars, foldVars, weightVars, solveVars, searchVars, cmp, lib, wr, af, gl, sw, ip>>
restOfLibrary == <<evalVars, copyVars, foldVars, weightVars, solveVars, searchVars, cmp, sel, wr, af, gl, sw, ip>>
restOfWrapper == <<evalVars, copyVars, foldVars, weightVars, solveVars, searchVars, cmp, sel, lib, af, gl, sw, ip>>
restOfAllocFold == <<evalVars, copyVars, foldVars, weightVars, solveVars, searchVars, cmp, sel, lib, wr, gl, sw, ip>>
restOfGenerations == <<evalVars, copyVars, foldVars, weightVars, solveVars, searchVars, cmp, sel, lib, wr, af, sw, ip>>
restOfSweep == <<evalVars, copyVars, foldVars, weightVars, solveVars, searchVars, cmp, sel, lib, wr, af, gl, ip>>
restOfSample == <<evalVars, copyVars, foldVars, weightVars, solveVars, searchVars, cmp, sel, lib, wr, af, gl, sw>>

\* ------------------------------------------------------------- individuals
\* An individual as a value: the struct with its five arrays inline.
\* FreshInd is what create_ind returns: counters and flags are set, the five
\* arrays are allocated but not initialised; junkA/junkI are the bytes malloc
\* happened to return.
FreshInd(junkA, junkI) ==
    [ nombr_nonpris |-> 0, nombr |-> 0, rank |-> 0,
      fitness |-> -1, fitnessbest |-> -1, explored |-> 0,
      f     |-> [k \in ObjIdx |-> junkA],
      capa  |-> [k \in ObjIdx |-> junkA],
      v     |-> [k \in ObjIdx |-> junkA],
      d     |-> [j \in ItemIdx |-> junkI],
      Items |-> [j \in ItemIdx |-> junkI] ]

\* What the v array of a new individual can hold: create_ind allocates it and
\* neither random_init_ind nor evaluate writes it, so each double is what
\* malloc left there: 0 in memory the process never used, the allocator's
\* free-list link where a freed block kept one (Link stands for its bits read
\* as a double, which is no whole number), or a number an earlier block held
\* there (Leftover stands for it), in any mixture.
Leftover == 7
Link == -7
JunkWords == {0, Link, Leftover}
JunkV == [ObjIdx -> JunkWords]

\* The permutations of the item indices: what random_init_ind can leave in d.
Perms == { p \in [ItemIdx -> ItemIdx] : \A a, b \in ItemIdx : a # b => p[a] # p[b] }

\* ---------------------------------------------------------------- evaluate
\* The do-while of evaluate: objectives are tested from l upwards and the
\* scan stops at the first one the item does not fit in.
\* (variant: the scan stops after the first objective)
FaisableFirstOnly(capa, item, l) ==
    IF capa[l] + weights[l][item] > capacities[l] THEN 0 ELSE 1

RECURSIVE Faisable(_, _, _)
Faisable(capa, item, l) ==
    IF capa[l] + weights[l][item] > capacities[l] THEN 0
    ELSE IF l + 1 < NF THEN Faisable(capa, item, l + 1)
    ELSE 1

\* One iteration j of the packing loop of evaluate.
EvalStep(x, j) ==
    LET item == x.d[j] IN
    IF Faisable(x.capa, item, 0) = 1
    THEN [x EXCEPT !.capa  = [k \in ObjIdx |-> x.capa[k] + weights[k][item]],
                   !.f     = [k \in ObjIdx |-> x.f[k] + profits[k][item]],
                   !.Items = [i \in ItemIdx |-> IF i = item THEN 1 ELSE x.Items[i]],
                   !.nombr = @ + 1]
    ELSE [x EXCEPT !.nombr_nonpris = @ + 1]

RECURSIVE EvalLoop(_, _)
EvalLoop(x, j) == IF j >= NI THEN x ELSE EvalLoop(EvalStep(x, j), j + 1)

(* variant: Items is not cleared before the packing loop *)
evaluate_keeps_items(x) ==
    EvalLoop([x EXCEPT !.nombr = 0, !.nombr_nonpris = 0,
                       !.capa  = [k \in ObjIdx |-> 0],
                       !.f     = [k \in ObjIdx |-> 0]], 0)

\* evaluate(x): reset the counts, the totals and Items, then pack greedily
\* in the order d.
evaluate(x) ==
    EvalLoop([x EXCEPT !.nombr = 0, !.nombr_nonpris = 0,
                       !.capa  = [k \in ObjIdx |-> 0],
                       !.f     = [k \in ObjIdx |-> 0],
                       !.Items = [j \in ItemIdx |-> 0]], 0)

\* ------------------------------------------- local-search moves on a value
\* Indicator_local_search1, the removal of item mino from the trial x.
RemoveItem(x, mino) ==
    [x EXCEPT !.Items = [i \in ItemIdx |-> IF i = mino THEN 0 ELSE x.Items[i]],
              !.nombr = @ - 1,
              !.nombr_nonpris = @ + 1,
              !.capa = [r \in ObjIdx |-> x.capa[r] - weights[r][mino]],
              !.f    = [r \in ObjIdx |-> x.f[r] - profits[r][mino]]]

\* Indicator_local_search1, the insertion of item maxp into the trial x.
InsertItem(x, maxp) ==
    [x EXCEPT !.Items = [i \in ItemIdx |-> IF i = maxp THEN 1 ELSE x.Items[i]],
              !.nombr_nonpris = @ - 1,
              !.nombr = @ + 1,
              !.capa = [r \in ObjIdx |-> x.capa[r] + weights[r][maxp]],
              !.f    = [r \in ObjIdx |-> x.f[r] + profits[r][maxp]]]

\* ------------------------------------------------------ memory, cell by cell
\* create_ind makes six allocations: the struct and its arrays f, capa, v, d
\* and Items.
IndCells == 6
\* Room for two individuals.
CellAddr == 1 .. 2 * IndCells
NULL == 0

\* A struct ind: the scalar fields, and the addresses of the five arrays.
NoHdr == [ nombr_nonpris |-> 0, nombr |-> 0, rank |-> 0,
           fitness |-> 0, fitnessbest |-> 0, explored |-> 0,
           f |-> NULL, capa |-> NULL, v |-> NULL, d |-> NULL, Items |-> NULL ]
\* A cell is free, or holds a struct (hdr) or an array (data).
FreeCell == [live |-> FALSE, hdr |-> NoHdr, data |-> <<>>]
EmptyMem == [a \in CellAddr |-> FreeCell]

\* malloc: the lowest free cell (NULL when none is left).
RECURSIVE FirstFree(_, _)
FirstFree(m, a) ==
    IF a \notin CellAddr THEN NULL
    ELSE IF ~m[a].live THEN a
    ELSE FirstFree(m, a + 1)
malloc(m) == FirstFree(m, 1)

Alloc(m, a, data) == [m EXCEPT ![a] = [live |-> TRUE, hdr |-> NoHdr, data |-> data]]

\* n successive calls of malloc: the addresses returned, in order.
RECURSIVE Mallocs(_, _)
Mallocs(m, n) ==
    IF n = 0 THEN <<>>
    ELSE <<malloc(m)>> \o Mallocs(Alloc(m, malloc(m), <<>>), n - 1)

\* create_ind, once its six cells a are allocated: the struct a[1] gets its
\* counters and flags and the addresses of f, capa, v, d, Items; the arrays
\* hold whatever the memory held (junkA, junkI).
InitInd(m, a, junkA, junkI) ==
    [mem |-> [c \in CellAddr |->
                IF c = a[1]
                THEN [live |-> TRUE, data |-> <<>>,
                      hdr  |-> [ nombr_nonpris |-> 0, nombr |-> 0, rank |-> 0,
                                 fitness |-> -1, fitnessbest |-> -1, explored |-> 0,
                                 f |-> a[2], capa |-> a[3], v |-> a[4],
                                 d |-> a[5], Items |-> a[6] ]]
                ELSE IF c \in {a[2], a[3], a[4]}
                     THEN [live |-> TRUE, hdr |-> NoHdr, data |-> [k \in ObjIdx |-> junkA]]
                ELSE IF c \in {a[5], a[6]}
                     THEN [live |-> TRUE, hdr |-> NoHdr, data |-> [k \in ItemIdx |-> junkI]]
                ELSE m[c]],
     p |-> a[1]]

\* create_ind: six allocations (the struct, then f, capa, v, d, Items).
create_ind(m, junkA, junkI) == InitInd(m, Mallocs(m, IndCells), junkA, junkI)

\* (variant: the copy takes the Items pointer of i instead of the elements)
CopyFieldsSharedItems(m, i, c) ==
    [mem |-> [a \in CellAddr |->
                IF a = c.p
                THEN [c.mem[a] EXCEPT !.hdr.nombr_nonpris = m[i].hdr.nombr_nonpris,
                                      !.hdr.nombr         = m[i].hdr.nombr,
                                      !.hdr.rank          = m[i].hdr.rank,
                                      !.hdr.fitnessbest   = m[i].hdr.fitnessbest,
                                      !.hdr.fitness       = m[i].hdr.fitness,
                                      !.hdr.explored      = m[i].hdr.explored,
                                      !.hdr.Items         = m[i].hdr.Items]
                ELSE IF a = c.mem[c.p].hdr.f
                     THEN [c.mem[a] EXCEPT !.data = [k \in ObjIdx |-> m[m[i].hdr.f].data[k]]]
                ELSE IF a = c.mem[c.p].hdr.v
                     THEN [c.mem[a] EXCEPT !.data = [k \in ObjIdx |-> m[m[i].hdr.v].data[k]]]
                ELSE IF a = c.mem[c.p].hdr.capa
                     THEN [c.mem[a] EXCEPT !.data = [k \in ObjIdx |-> m[m[i].hdr.capa].data[k]]]
                ELSE IF a = c.mem[c.p].hdr.d
                     THEN [c.mem[a] EXCEPT !.data = [k \in ItemIdx |-> m[m[i].hdr.d].data[k]]]
                ELSE c.mem[a]],
     p |-> c.p]

\* ind_copy, once the new individual c = create_ind(nf) exists: every scalar
\* field of i, then every element of f, v, capa (nf of them) and of d, Items
\* (ni of them) is copied into it.
CopyFields(m, i, c) ==
    [mem |-> [a \in CellAddr |->
                IF a = c.p
                THEN [c.mem[a] EXCEPT !.hdr.nombr_nonpris = m[i].hdr.nombr_nonpris,
                                      !.hdr.nombr         = m[i].hdr.nombr,
                                      !.hdr.rank          = m[i].hdr.rank,
                                      !.hdr.fitnessbest   = m[i].hdr.fitnessbest,
                                      !.hdr.fitness       = m[i].hdr.fitness,
                                      !.hdr.explored      = m[i].hdr.explored]
                ELSE IF a = c.mem[c.p].hdr.f
                     THEN [c.mem[a] EXCEPT !.data = [k \in ObjIdx |-> m[m[i].hdr.f].data[k]]]
                ELSE IF a = c.mem[c.p].hdr.v
                     THEN [c.mem[a] EXCEPT !.data = [k \in ObjIdx |-> m[m[i].hdr.v].data[k]]]
                ELSE IF a = c.mem[c.p].hdr.capa
                     THEN [c.mem[a] EXCEPT !.data = [k \in ObjIdx |-> m[m[i].hdr.capa].data[k]]]
                ELSE IF a = c.mem[c.p].hdr.d
                     THEN [c.mem[a] EXCEPT !.data = [k \in ItemIdx |-> m[m[i].hdr.d].data[k]]]
                ELSE IF a = c.mem[c.p].hdr.Items
                     THEN [c.mem[a] EXCEPT !.data = [k \in ItemIdx |-> m[m[i].hdr.Items].data[k]]]
                ELSE c.mem[a]],
     p |-> c.p]

\* ind_copy(i): a fresh individual, then the fields of i copied into it.
ind_copy(m, i) == CopyFields(m, i, create_ind(m, -1, -1))

\* free_ind: the five arrays, then the struct.
free_ind(m, p) ==
    [a \in CellAddr |->
        IF a \in {m[p].hdr.d, m[p].hdr.f, m[p].hdr.capa, m[p].hdr.v, m[p].hdr.Items, p}
        THEN FreeCell ELSE m[a]]

\* The cells individual p owns, and p read through its pointers as a value.
Owned(m, p) ==
    {p, m[p].hdr.f, m[p].hdr.capa, m[p].hdr.v, m[p].hdr.d, m[p].hdr.Items}
Load(m, p) ==
    [ nombr_nonpris |-> m[p].hdr.nombr_nonpris, nombr |-> m[p].hdr.nombr,
      rank |-> m[p].hdr.rank, fitness |-> m[p].hdr.fitness,
      fitnessbest |-> m[p].hdr.fitnessbest, explored |-> m[p].hdr.explored,
      f |-> m[m[p].hdr.f].data, capa |-> m[m[p].hdr.capa].data,
      v |-> m[m[p].hdr.v].data, d |-> m[m[p].hdr.d].data,
      Items |-> m[m[p].hdr.Items].data ]

\* The value x written through the pointers of p (what an in-place update of
\* p's counters and arrays does to memory).
WriteBack(m, p, x) ==
    [a \in CellAddr |->
        IF a = p THEN [m[p] EXCEPT !.hdr.nombr_nonpris = x.nombr_nonpris,
                                   !.hdr.nombr = x.nombr,
                                   !.hdr.rank = x.rank,
                                   !.hdr.fitness = x.fitness,
                                   !.hdr.fitnessbest = x.fitnessbest,
                                   !.hdr.explored = x.explored]
        ELSE IF a = m[p].hdr.Items THEN [m[a] EXCEPT !.data = x.Items]
        ELSE IF a = m[p].hdr.d     THEN [m[a] EXCEPT !.data = x.d]
        ELSE IF a = m[p].hdr.v     THEN [m[a] EXCEPT !.data = x.v]
        ELSE IF a = m[p].hdr.capa  THEN [m[a] EXCEPT !.data = x.capa]
        ELSE IF a = m[p].hdr.f     THEN [m[a] EXCEPT !.data = x.f]
        ELSE m[a]]

\* An individual value laid out in memory: in the fresh individual c, and in
\* an empty memory (where it lands at cell 1).
StoreAt(c, x) == WriteBack(c.mem, c.p, x)
Store(x) == StoreAt(create_ind(EmptyMem, 0, 0), x)

\* ind_copy on values: the copy of x, read back.
LoadAt(c) == Load(c.mem, c.p)
CopyVal(x) == LoadAt(ind_copy(Store(x), 1))

\* ------------------------------------------------------------- populations
\* A pop: size, maxsize and ind_array.  ind_array holds the size slots in
\* use, in order; alloc is FALSE for a NULL pop pointer.
NullPop == [alloc |-> FALSE, size |-> 0, maxsize |-> 0, ind_array |-> <<>>]
create_pop(maxsize) ==
    [alloc |-> TRUE, size |-> 0, maxsize |-> maxsize, ind_array |-> <<>>]

\* non_dominated(a, b): 0 when the objective vectors are equal, 1 when a is
\* greater on some objective, -1 otherwise.
non_dominated(a, b) ==
    LET a_is_good == IF \E i \in ObjIdx : a.f[i] > b.f[i] THEN 1 ELSE -1
        equal     == \A i \in ObjIdx : a.f[i] = b.f[i]
    IN  IF equal THEN 0 ELSE a_is_good

\* extractPtoArchive, the test that ends the scan of j for candidate i:
\* i is dominated by j, or equal to a j of lower index.
(* variant: among equal vectors the higher index is kept *)
ScanStopsKeepLast(U, i, j) ==
    /\ i # j
    /\ LET dom == non_dominated(U[i + 1], U[j + 1])
       IN  dom = -1 \/ (dom = 0 /\ i < j)

(* variant: a dominated candidate does not end the scan *)
ScanStopsOnEqualOnly(U, i, j) ==
    /\ i # j
    /\ LET dom == non_dominated(U[i + 1], U[j + 1])
       IN  dom = 0 /\ i > j

(* variant: among equal vectors none is kept *)
ScanStopsOnAnyEqual(U, i, j) ==
    /\ i # j
    /\ LET dom == non_dominated(U[i + 1], U[j + 1])
       IN  dom = -1 \/ dom = 0

ScanStops(U, i, j) ==
    /\ i # j
    /\ LET dom == non_dominated(U[i + 1], U[j + 1])
       IN  dom = -1 \/ (dom = 0 /\ i > j)

\* The inner loop over j: the value of j when it ends (t when no j stopped
\* it, t + 2 after `j = t + 1` and the loop's j++).
RECURSIVE ScanJ(_, _, _)
ScanJ(U, i, j) ==
    LET t == Len(U) IN
    IF j >= t THEN j
    ELSE IF ScanStops(U, i, j) THEN t + 2
    ELSE ScanJ(U, i, j + 1)

\* `if (i >= t - P->size) convergence_rate++`
(* variant: every survivor is counted *)
CountsAsNewAlways(i, t, psize) == i >= 0
CountsAsNew(i, t, psize) == i >= t - psize

\* The outer loop over i: kept is the list of the indices of U that
\* survived, arr the copies stored in archive->ind_array, conv the counter.
RECURSIVE FoldLoop(_, _, _, _)
FoldLoop(U, psize, i, acc) ==
    LET t == Len(U) IN
    IF i >= t THEN acc
    ELSE IF ScanJ(U, i, 0) = t
         THEN FoldLoop(U, psize, i + 1,
                       [kept |-> Append(acc.kept, i),
                        arr  |-> Append(acc.arr, CopyVal(U[i + 1])),
                        conv |-> IF CountsAsNew(i, t, psize)
                                 THEN acc.conv + 1 ELSE acc.conv])
         ELSE FoldLoop(U, psize, i + 1, acc)

\* archiveAndP: the archive's members, then a copy of every member of P.
(* variant: the old archive members are left out *)
archiveAndP_incoming_only(Pin, arch) ==
    [i \in 1 .. Pin.size |-> CopyVal(Pin.ind_array[i])]
archiveAndP(Pin, arch) ==
    SubSeq(arch.ind_array, 1, arch.size)
        \o [i \in 1 .. Pin.size |-> CopyVal(Pin.ind_array[i])]

\* extractPtoArchive, its result once the loops are done: the archive, the
\* value returned, and (for the record) U and the indices kept.  Nothing
\* compares archive->size with archive->maxsize: a survivor beyond maxsize is
\* stored past the end of ind_array.
FoldOut(arch, U, r) ==
    [archive |-> [arch EXCEPT !.size = Len(r.arr), !.ind_array = r.arr],
     ret     |-> r.conv,
     U       |-> U,
     kept    |-> r.kept]
FoldOf(arch, U, psize) ==
    FoldOut(arch, U, FoldLoop(U, psize, 0, [kept |-> <<>>, arr |-> <<>>, conv |-> 0]))

\* extractPtoArchive(P, archive).
extractPtoArchive(Pin, arch) == FoldOf(arch, archiveAndP(Pin, arch), Pin.size)

\* ------------------------------------------------------------ the problems
\* The profit table of every problem explored.
ProfitTable == [k \in ObjIdx |-> [i \in ItemIdx |-> ((i + 2 * k) % 3) + 1]]

Slots == {1, 2}
Other(s) == 3 - s

\* The parts of the state a scenario does not use stay at these values.
EvalIdle == ex = FreshInd(0, 0) /\ epc = "idle"
CopyIdle ==
    /\ mem = EmptyMem
    /\ slot = [s \in Slots |-> NULL]
    /\ cop = [op |-> "idle", who |-> 0]
NoFold == [before |-> <<>>, psize |-> 0, U |-> <<>>, kept |-> <<>>, ret |-> 0]
FoldIdle ==
    /\ P = NullPop
    /\ solutions = NullPop
    /\ fold = NoFold
    /\ fpc = "idle"

\* The weight table has at most MaxRows rows; one more column is modelled (the
\* C array has 10000).
MaxRows == 3
RowIdx  == 0 .. MaxRows
\* The static initial value of OBJ_Weights, nombreLIGNE, nextLn, vector_weight.
NoWeights == [i \in ObjIdx |-> [r \in RowIdx |-> 0]]
WeightsIdle ==
    /\ OBJ_Weights = NoWeights
    /\ nombreLIGNE = 0
    /\ nextLn = 0
    /\ vector_weight = [i \in ObjIdx |-> 0]
    /\ calls = 0

\* knapsack_solve is called with population_size in 1 .. MaxPop and
\* max_iterations in 0 .. MaxIter.
MaxPop  == 2
MaxIter == 1
\* Room on the heap for the individuals of one call.
KAddr == 1 .. 6 * MaxPop
KDead == [live |-> FALSE, val |-> FreshInd(0, 0)]
NoResult == [rc |-> "none", sols |-> <<>>]
SolveIdle ==
    /\ kheap = [a \in KAddr |-> KDead]
    /\ ksol = NullPop
    /\ karch = NullPop
    /\ kpar = [population_size |-> 0, max_iterations |-> 0]
    /\ kiter = 0
    /\ kinit = <<>>
    /\ kres = NoResult
    /\ kpc = "idle"

\* mokp_core.h: #define L 5; part_003: int NBITEMS = 250.
L       == 5
NBITEMS == 250
\* mino, IM, remplace and taille of a removal step.  before and unwound are
\* history: the trial as it was when the removal step began, and whether the
\* step ended in the unwinding branch; drawn and put are the index the last
\* insertion attempt drew and whether it was put in.
NoStep == [mino |-> 0, IM |-> 0, remplace |-> [l \in 0 .. L - 1 |-> 0], taille |-> 0,
           before |-> FreshInd(0, 0), unwound |-> FALSE,
           drawn |-> 0, put |-> FALSE]
SearchIdle ==
    /\ archive = NullPop
    /\ trial = FreshInd(0, 0)
    /\ cur = [i |-> 0, j |-> 0]
    /\ step = NoStep
    /\ convergence = 0
    /\ gen = 0
    /\ lpc = "idle"

\* The scenarios added below stay at these values when not in use.


CompareIdle == cmp = [a |-> [k \in ObjIdx |-> 0], b |-> [k \in ObjIdx |-> 0], dominates |-> 0, non_dominated |-> 0, pc |-> "idle"]

SelectIdle == sel = [c |-> <<>>, SP |-> <<>>, x |-> [id |-> 0, fitness |-> 0], before |-> <<>>, worst |-> 0, replaced |-> FALSE, ret |-> 0, pc |-> "idle"]

LibraryIdle == lib = [pc |-> "idle"]

WrapperIdle == wr = [pc |-> "idle"]

AllocFoldIdle == af = [pc |-> "idle"]

GenerationsIdle == gl = [pc |-> "idle"]

SweepIdle == sw = [pc |-> "idle"]

SampleIdle == ip = [pc |-> "idle"]

\* ------------------------------------------------- the evaluator on its own
\* Problems explored: every capacity vector over CapVals (a negative capacity
\* is what loadMOKP stores when the file holds one: it validates nothing) and
\* every weight table over WVals; profits are the fixed table ProfitTable.
CapVals == {-1, 0, 3}
WVals   == {1, 2}

\* What the arrays of x may hold before the call: the junk of a fresh
\* create_ind, or stale totals and an all-ones Items.
PriorJunk == { <<0, 0>>, <<7, 1>> }

EvalInit ==
    /\ capacities \in [ObjIdx -> CapVals]
    /\ weights \in [ObjIdx -> [ItemIdx -> WVals]]
    /\ profits = ProfitTable
    /\ \E p \in Perms, jk \in PriorJunk :
          ex = [FreshInd(jk[1], jk[2]) EXCEPT !.d = p]
    /\ epc = "fresh"
    /\ CopyIdle /\ FoldIdle /\ WeightsIdle /\ SolveIdle /\ SearchIdle /\ CompareIdle /\ SelectIdle /\ LibraryIdle /\ WrapperIdle /\ AllocFoldIdle /\ GenerationsIdle /\ SweepIdle /\ SampleIdle

\* The call evaluate(ex).
Evaluate ==
    /\ epc = "fresh"
    /\ ex' = evaluate(ex)
    /\ epc' = "evaluated"
    /\ UNCHANGED <<problemVars, restOfEval>>

\* A move of the local search on the evaluated individual: an included item
\* is taken out or an excluded one put in, totals adjusted, whether it fits
\* or not.
Flip ==
    /\ epc = "evaluated"
    /\ \E i \in ItemIdx :
          ex' = IF ex.Items[i] = 1 THEN RemoveItem(ex, i) ELSE InsertItem(ex, i)
    /\ epc' = "flipped"
    /\ UNCHANGED <<problemVars, restOfEval>>

\* evaluate(ex) again, on the result of the first call or after a move.
Reevaluate ==
    /\ epc \in {"evaluated", "flipped"}
    /\ ex' = evaluate(ex)
    /\ epc' = IF epc = "flipped" THEN "repacked" ELSE "reevaluated"
    /\ UNCHANGED <<problemVars, restOfEval>>

EvalNext == Evaluate \/ Flip \/ Reevaluate
SpecEval == EvalInit /\ [][EvalNext]_vars

WithinCapacity(x) == \A k \in ObjIdx : x.capa[k] <= capacities[k]
NonNegWeights     == \A k \in ObjIdx, i \in ItemIdx : weights[k][i] >= 0
NonNegCapacities  == \A k \in ObjIdx : capacities[k] >= 0

\* C1, as stated: after evaluate(x), with d a permutation and non-negative
\* weights, capa[k] <= capacities[k] for every objective k, whatever Items, f
\* and capa held before the call.
C1_AsStated ==
    (epc = "evaluated" /\ ex.d \in Perms /\ NonNegWeights) => WithinCapacity(ex)

\* C1, amended: the same, for problems whose capacities are non-negative too
\* (with a negative capacity even the empty pack, capa = 0, exceeds it).
C1_EvaluateWithinCapacity ==
    (epc = "evaluated" /\ ex.d \in Perms /\ NonNegWeights /\ NonNegCapacities)
        => WithinCapacity(ex)

\* C1 witness: an evaluated individual of a problem with non-negative
\* capacities, in which one item was packed and another was refused.
C1_Witness ==
    /\ epc = "evaluated" /\ NonNegWeights /\ NonNegCapacities
    /\ ex.nombr >= 1 /\ ex.nombr_nonpris >= 1

\* -------------------------------------------- an individual and its copy
\* The problem the scenarios below run on: ni items, capacity ni on every
\* objective, weights 1 or 2.
TestCapacities == [k \in ObjIdx |-> NI]
TestWeights    == [k \in ObjIdx |-> [i \in ItemIdx |-> ((i + k) % 2) + 1]]

TestProblem ==
    /\ capacities = TestCapacities
    /\ weights = TestWeights
    /\ profits = ProfitTable



\* What the search has left in fitness and explored: nothing yet, or a
\* fitness and the explored flag.
SearchMarks == { <<-1, 0>>, <<2, 1>> }

\* random_init_pop for one individual: create_ind, random_init_ind (d becomes
\* some permutation), evaluate.  v is never written and keeps its junk.
CopyInit ==
    /\ TestProblem
    /\ EvalIdle /\ FoldIdle /\ WeightsIdle /\ SolveIdle /\ SearchIdle /\ CompareIdle /\ SelectIdle /\ LibraryIdle /\ WrapperIdle /\ AllocFoldIdle /\ GenerationsIdle /\ SweepIdle /\ SampleIdle
    /\ \E p \in Perms, junk \in {0, 7}, sm \in SearchMarks :
        \E c \in {create_ind(EmptyMem, junk, 0)} :
          /\ mem = StoreAt(c, [evaluate([LoadAt(c) EXCEPT !.d = p])
                                 EXCEPT !.fitness = sm[1], !.explored = sm[2]])
          /\ slot = [s \in Slots |-> IF s = 1 THEN c.p ELSE NULL]
    /\ cop = [op |-> "init", who |-> 1]

\* y = ind_copy(x), x the individual of slot s.
Copy(s) ==
    /\ slot[s] # NULL /\ slot[Other(s)] = NULL
    /\ \E c \in {ind_copy(mem, slot[s])} :
           /\ mem' = c.mem
           /\ slot' = [slot EXCEPT ![Other(s)] = c.p]
    /\ cop' = [op |-> "copy", who |-> Other(s)]
    /\ UNCHANGED <<problemVars, restOfCopy>>

\* evaluate(x) on the individual of slot s.
EvaluateSlot(s) ==
    /\ slot[s] # NULL
    /\ mem' = WriteBack(mem, slot[s], evaluate(Load(mem, slot[s])))
    /\ cop' = [op |-> "evaluate", who |-> s]
    /\ UNCHANGED <<problemVars, restOfCopy, slot>>

\* The local-search removal of an included item from the individual of slot s.
RemoveSlot(s) ==
    /\ slot[s] # NULL
    /\ \E mino \in ItemIdx :
          /\ Load(mem, slot[s]).Items[mino] = 1
          /\ mem' = WriteBack(mem, slot[s], RemoveItem(Load(mem, slot[s]), mino))
    /\ cop' = [op |-> "remove", who |-> s]
    /\ UNCHANGED <<problemVars, restOfCopy, slot>>

\* The local-search insertion of an excluded item that fits.
InsertSlot(s) ==
    /\ slot[s] # NULL
    /\ \E maxp \in ItemIdx :
          /\ Load(mem, slot[s]).Items[maxp] = 0
          /\ Faisable(Load(mem, slot[s]).capa, maxp, 0) = 1
          /\ mem' = WriteBack(mem, slot[s], InsertItem(Load(mem, slot[s]), maxp))
    /\ cop' = [op |-> "insert", who |-> s]
    /\ UNCHANGED <<problemVars, restOfCopy, slot>>

\* free_ind on the individual of slot s (the other one stays held).
FreeSlot(s) ==
    /\ slot[s] # NULL /\ slot[Other(s)] # NULL
    /\ mem' = free_ind(mem, slot[s])
    /\ slot' = [slot EXCEPT ![s] = NULL]
    /\ cop' = [op |-> "free", who |-> s]
    /\ UNCHANGED <<problemVars, restOfCopy>>

CopyNext ==
    \E s \in Slots :
        \/ Copy(s)
        \/ EvaluateSlot(s)
        \/ RemoveSlot(s)
        \/ InsertSlot(s)
        \/ FreeSlot(s)

SpecCopy == CopyInit /\ [][CopyNext]_vars

BothHeld == slot[1] # NULL /\ slot[2] # NULL

\* Right after y = ind_copy(x): y equals x in every field, and evaluating
\* both gives the same Items, f and capa.
CopyEqual ==
    (cop.op = "copy") =>
        LET x == Load(mem, slot[Other(cop.who)])
            y == Load(mem, slot[cop.who])
        IN  /\ y = x
            /\ evaluate(y).Items = evaluate(x).Items
            /\ evaluate(y).f = evaluate(x).f
            /\ evaluate(y).capa = evaluate(x).capa

\* The two individuals share no cell, and every cell they own is allocated.
NoSharing ==
    BothHeld =>
        /\ Owned(mem, slot[1]) \cap Owned(mem, slot[2]) = {}
        /\ \A a \in Owned(mem, slot[1]) \cup Owned(mem, slot[2]) : a # NULL /\ mem[a].live

\* A step that acts on one individual (removal, insertion, evaluate, free)
\* leaves the other one as it was.
OtherUntouched ==
    (BothHeld /\ cop'.op \in {"remove", "insert", "evaluate", "free"}) =>
        Load(mem', slot[Other(cop'.who)]) = Load(mem, slot[Other(cop'.who)])

\* C7: ind_copy(i) returns an individual equal to i in every field that
\* shares no array with i; a later removal, insertion, evaluate or free on
\* either of the two leaves the other unchanged, and evaluating both gives
\* identical Items, f and capa.
C7_CopyDeepAndEqual == [](CopyEqual /\ NoSharing) /\ [][OtherUntouched]_vars

\* C7 witness: original and copy are both held and, after a removal or an
\* insertion on one of them, their Items differ.
C7_Witness ==
    /\ BothHeld
    /\ cop.op \in {"remove", "insert"}
    /\ Load(mem, slot[1]).Items # Load(mem, slot[2]).Items
    /\ Load(mem, slot[1]).d = Load(mem, slot[2]).d

\* ------------------------------------------------- folds into the archive
\* At most MaxIn individuals are submitted to one fold.
MaxIn == 2
\* archive_size, the maxsize of P: mokp_set_parameters accepts any value.
ArchSizes == {1, 2 * MaxIn}

\* Three orders: ascending, descending, and ascending with the first two
\* items exchanged.
FoldOrders ==
    { [j \in ItemIdx |-> j],
      [j \in ItemIdx |-> NI - 1 - j],
      [j \in ItemIdx |-> IF j = 0 THEN 1 ELSE IF j = 1 THEN 0 ELSE j] }

\* The individuals submitted: random_init_ind + evaluate on one of the
\* orders, or such an individual after the local search removed one item.
Evaluated == { evaluate([FreshInd(0, 0) EXCEPT !.d = p]) : p \in FoldOrders }
FoldPool ==
    Evaluated \cup
    UNION { { RemoveItem(x, m) : m \in { i \in ItemIdx : x.Items[i] = 1 } } : x \in Evaluated }

FoldInit ==
    /\ TestProblem
    /\ EvalIdle /\ CopyIdle /\ WeightsIdle /\ SolveIdle /\ SearchIdle /\ CompareIdle /\ SelectIdle /\ LibraryIdle /\ WrapperIdle /\ AllocFoldIdle /\ GenerationsIdle /\ SweepIdle /\ SampleIdle
    /\ \E a \in ArchSizes : P = create_pop(a)
    /\ solutions = NullPop
    /\ fold = NoFold
    /\ fpc = "ready"

\* The caller creates an empty working population ...
NewIncoming ==
    /\ fpc \in {"ready", "folded"}
    /\ solutions' = create_pop(MaxIn)
    /\ fold' = NoFold
    /\ fpc' = "filling"
    /\ UNCHANGED <<problemVars, restOfFold, P>>

\* ... and puts individuals in it, one by one.
AddIncoming ==
    /\ fpc = "filling"
    /\ solutions.size < solutions.maxsize
    /\ \E x \in FoldPool :
          solutions' = [solutions EXCEPT !.size = @ + 1,
                                         !.ind_array = Append(@, x)]
    /\ UNCHANGED <<problemVars, restOfFold, P, fold, fpc>>

\* extractPtoArchive(solutions, P) returns r.
FoldReturns(r) ==
    /\ P' = r.archive
    /\ fold' = [before |-> SubSeq(P.ind_array, 1, P.size),
                psize |-> solutions.size,
                U |-> r.U, kept |-> r.kept, ret |-> r.ret]
    /\ fpc' = "folded"
    /\ UNCHANGED <<problemVars, restOfFold, solutions>>

\* extractPtoArchive(solutions, P) stores past the end of P->ind_array and
\* the process dies of it.
FoldCrashes(r) ==
    /\ r.archive.size > P.maxsize
    /\ fpc' = "crashed"
    /\ UNCHANGED <<problemVars, restOfFold, P, solutions, fold>>

\* The call extractPtoArchive(solutions, P).
Fold ==
    /\ fpc = "filling"
    /\ \E r \in {extractPtoArchive(solutions, P)} :
          FoldReturns(r) \/ FoldCrashes(r)

FoldNext == NewIncoming \/ AddIncoming \/ Fold
SpecFold == FoldInit /\ [][FoldNext]_vars

\* a is dominated by b: nowhere greater, somewhere smaller.
DominatedBy(a, b) ==
    /\ \A k \in ObjIdx : a.f[k] <= b.f[k]
    /\ \E k \in ObjIdx : a.f[k] < b.f[k]

\* The members of P, the indices of the last fold's U, those it kept, and
\* those that came from the incoming population.
Members   == 1 .. P.size
UIdx      == 0 .. Len(fold.U) - 1
Kept      == { fold.kept[n] : n \in 1 .. Len(fold.kept) }
Incoming  == { i \in UIdx : i >= Len(fold.before) }
UAt(i)    == fold.U[i + 1]
\* How many times each objective vector occurs in a list of individuals.
FBag(arr) ==
    [ v \in { arr[n].f : n \in 1 .. Len(arr) } |->
        Cardinality({ n \in 1 .. Len(arr) : arr[n].f = v }) ]

\* C2: after any extractPtoArchive(P, archive) the archive is pairwise
\* non-dominated: for members i # j, non_dominated(i, j) does not report i as
\* dominated by j, and i is not dominated by j.
C2_PairwiseNonDominated ==
    (fpc = "folded") =>
        \A i, j \in Members :
            i # j => /\ non_dominated(P.ind_array[i], P.ind_array[j]) # -1
                     /\ ~DominatedBy(P.ind_array[i], P.ind_array[j])

\* C2 witness: a fold that dropped a dominated element of U and left an
\* archive of at least two members.
C2_Witness ==
    /\ fpc = "folded"
    /\ P.size >= 2
    /\ \E i, j \in UIdx : DominatedBy(UAt(i), UAt(j)) /\ i \notin Kept

\* C3, as stated: archive->size <= archive->maxsize after every fold.
C3_AsStated == (fpc = "folded") => P.size <= P.maxsize

\* C4: folding an empty population into the archive leaves its multiset of
\* objective vectors unchanged and returns 0, and folding it once more gives
\* the same archive.
C4_EmptyFoldIdempotent ==
    (fpc = "folded" /\ fold.psize = 0) =>
        /\ FBag(P.ind_array) = FBag(fold.before)
        /\ P.size = Len(fold.before)
        /\ fold.ret = 0
        /\ extractPtoArchive(create_pop(0), P).archive = P
        /\ extractPtoArchive(create_pop(0), P).ret = 0

\* C4 witness: an empty population was folded into an archive of two members.
C4_Witness ==
    /\ fpc = "folded" /\ fold.psize = 0
    /\ Len(fold.before) >= 2

\* C5: among the elements of U with one objective vector that no element of
\* U dominates, exactly the one of lowest index survives; an incoming
\* duplicate of an archive member does not survive, and no two members of the
\* archive have equal objective vectors.
C5_LowestIndexSurvives ==
    (fpc = "folded") =>
        /\ \A i \in UIdx :
              (\A j \in UIdx : ~DominatedBy(UAt(i), UAt(j))) =>
                  \A g \in UIdx :
                      UAt(g).f = UAt(i).f =>
                          (g \in Kept <=> \A h \in UIdx : UAt(h).f = UAt(i).f => g <= h)
        /\ \A i \in Incoming :
              (\E j \in UIdx \ Incoming : UAt(j).f = UAt(i).f) => i \notin Kept
        /\ \A a, b \in Members : a # b => P.ind_array[a].f # P.ind_array[b].f
        /\ P.ind_array = [n \in 1 .. Len(fold.kept) |-> UAt(fold.kept[n])]

\* C5 witness: two incoming individuals with the same objective vector and
\* different orders d, dominated by nothing, of which the first was kept.
C5_Witness ==
    /\ fpc = "folded"
    /\ \E i, j \in Incoming :
          /\ i < j
          /\ UAt(i).f = UAt(j).f /\ UAt(i).d # UAt(j).d
          /\ \A h \in UIdx : ~DominatedBy(UAt(i), UAt(h))
          /\ i \in Kept

\* C6: extractPtoArchive returns the number of members of the archive after
\* the fold that came from the incoming population, and returns 0 exactly
\* when every incoming individual is dominated by, or has the objective vector
\* of, an element of U of lower index.
C6_ReturnCountsNew ==
    (fpc = "folded") =>
        /\ fold.ret = Cardinality(Kept \cap Incoming)
        /\ fold.ret =
             Cardinality({ n \in Members : fold.kept[n] >= Len(fold.before) })
        /\ (fold.ret = 0) <=>
             \A i \in Incoming :
                 \E j \in UIdx :
                     j < i /\ (DominatedBy(UAt(i), UAt(j)) \/ UAt(j).f = UAt(i).f)

\* C6 witness: a fold into a non-empty archive in which one incoming
\* individual survived and another did not.
C6_Witness ==
    /\ fpc = "folded"
    /\ Len(fold.before) >= 1
    /\ fold.psize >= 2
    /\ fold.ret >= 1 /\ fold.ret < fold.psize

\* ---------------------------------------------------- the weight vectors
\* The values a weights file holds (tenths).
WeightVals == {3, 7}
\* choose_weight is followed for MaxCalls calls.
MaxCalls == 2 * MaxRows + 2

\* read_weights_file: every value is stored as it is read, into row
\* nombreLIGNE, and nombreLIGNE counts the rows that were read whole.  A
\* file that ends inside a row has left the values of that row it holds
\* (tail, fewer than a row) in row n, which is not counted.  What was not
\* read keeps what it held, and nextLn is not touched.
read_weights_file(n, rows, tail) ==
    /\ OBJ_Weights' = [i \in ObjIdx |-> [r \in RowIdx |->
                         IF r < n THEN rows[r][i]
                         ELSE IF r = n /\ i < Len(tail) THEN tail[i + 1]
                         ELSE OBJ_Weights[i][r]]]
    /\ nombreLIGNE' = n

\* The values of a last row the file ends in: none, or fewer than a row.
Tails == UNION { [1 .. k -> WeightVals] : k \in 0 .. NF - 1 }

\* mokp_load_weights with a file of n >= 1 whole rows.
LoadWeights ==
    /\ nombreLIGNE = 0
    /\ \E n \in 1 .. MaxRows :
       \E rows \in [0 .. n - 1 -> [ObjIdx -> WeightVals]], tail \in Tails :
          read_weights_file(n, rows, tail)
    /\ UNCHANGED <<problemVars, restOfWeights, nextLn, vector_weight, calls>>

\* dynamic_weight_allpop, the cursor after row ln was consumed.
NextCursor(ln, n) == IF ln = n THEN 0 ELSE ln + 1

\* dynamic_weight_allpop: vector_weight takes row nextLn, then the cursor
\* moves.
dynamic_weight_allpop ==
    /\ vector_weight' = [i \in ObjIdx |-> OBJ_Weights[i][nextLn]]
    /\ nextLn' = NextCursor(nextLn, nombreLIGNE)

\* choose_weight() (mokp_update_weights, mokp_run_single_iteration).
ChooseWeight ==
    /\ nombreLIGNE >= 1
    /\ calls < MaxCalls
    /\ dynamic_weight_allpop
    /\ calls' = calls + 1
    /\ UNCHANGED <<problemVars, restOfWeights, OBJ_Weights, nombreLIGNE>>

WeightsInit ==
    /\ TestProblem
    /\ EvalIdle /\ CopyIdle /\ FoldIdle /\ SolveIdle /\ SearchIdle /\ CompareIdle /\ SelectIdle /\ LibraryIdle /\ WrapperIdle /\ AllocFoldIdle /\ GenerationsIdle /\ SweepIdle /\ SampleIdle
    /\ WeightsIdle

WeightsNext == LoadWeights \/ ChooseWeight
SpecWeights == WeightsInit /\ [][WeightsNext]_vars

\* C8, as stated: with n >= 1 loaded rows, the k-th call of choose_weight
\* (k = 0, 1, 2, ...) sets vector_weight to row k mod n, and the cursor always
\* indexes a loaded row when a vector is consumed.
C8_AsStated ==
    (nombreLIGNE >= 1) =>
        /\ nextLn < nombreLIGNE
        /\ (calls >= 1) =>
              vector_weight =
                  [i \in ObjIdx |-> OBJ_Weights[i][(calls - 1) % nombreLIGNE]]

\* ------------------------------------------ the knapsack core: knapsack_solve
\* evaluate of the knapsack core: Items is not cleared first; the entry of a
\* refused item is set to 0.
k_EvalStep(x, j) ==
    IF Faisable(x.capa, x.d[j], 0) = 1
    THEN [x EXCEPT !.capa  = [k \in ObjIdx |-> x.capa[k] + weights[k][x.d[j]]],
                   !.f     = [k \in ObjIdx |-> x.f[k] + profits[k][x.d[j]]],
                   !.Items = [i \in ItemIdx |-> IF i = x.d[j] THEN 1 ELSE x.Items[i]],
                   !.nombr = @ + 1]
    ELSE [x EXCEPT !.Items = [i \in ItemIdx |-> IF i = x.d[j] THEN 0 ELSE x.Items[i]],
                   !.nombr_nonpris = @ + 1]

RECURSIVE k_EvalLoop(_, _)
k_EvalLoop(x, j) == IF j >= NI THEN x ELSE k_EvalLoop(k_EvalStep(x, j), j + 1)

k_evaluate(x) ==
    k_EvalLoop([x EXCEPT !.nombr = 0, !.nombr_nonpris = 0,
                         !.capa = [k \in ObjIdx |-> 0],
                         !.f    = [k \in ObjIdx |-> 0]], 0)

\* The heap of individuals: h[a] is the individual at address a, live until
\* free_ind(a).  malloc returns the lowest address that is not live.
RECURSIVE KFirstFree(_, _)
KFirstFree(h, a) ==
    IF a \notin KAddr THEN NULL
    ELSE IF ~h[a].live THEN a
    ELSE KFirstFree(h, a + 1)

\* A new individual with value x at address a.
KPut(h, a, x) ==
    [h |-> [c \in KAddr |-> IF c = a THEN [live |-> TRUE, val |-> x] ELSE h[c]],
     a |-> a]

\* ind_copy of the knapsack core, on values: the six scalar fields, then the
\* elements of f, v, capa and of d, Items (part_001:598-614).
k_CopyVal(i) ==
    [ nombr_nonpris |-> i.nombr_nonpris, nombr |-> i.nombr, rank |-> i.rank,
      fitness |-> i.fitness, fitnessbest |-> i.fitnessbest, explored |-> i.explored,
      f     |-> [k \in ObjIdx |-> i.f[k]],
      capa  |-> [k \in ObjIdx |-> i.capa[k]],
      v     |-> [k \in ObjIdx |-> i.v[k]],
      d     |-> [k \in ItemIdx |-> i.d[k]],
      Items |-> [k \in ItemIdx |-> i.Items[k]] ]

\* ind_copy(src): create_ind, then the fields of src copied; NULL, and the
\* heap as it was, when chk_malloc fails in create_ind (part_001:595-596).
k_ind_copy(h, src, fails) ==
    IF fails THEN [h |-> h, a |-> NULL]
    ELSE KPut(h, KFirstFree(h, 1), k_CopyVal(h[src].val))

\* free_ind(a) on acc = [h, df]: a live individual dies; freeing one that is
\* already dead is a double free (df records it).
k_free_ind(acc, a) ==
    IF a = NULL THEN acc
    ELSE IF acc.h[a].live
         THEN [h  |-> [c \in KAddr |->
                         IF c = a THEN [live |-> FALSE, val |-> acc.h[c].val]
                         ELSE acc.h[c]],
               df |-> acc.df]
         ELSE [h |-> acc.h, df |-> TRUE]

\* free_ind on ap[i], ..., ap[hi - 1] (C indices).
RECURSIVE k_FreeRange(_, _, _, _)
k_FreeRange(acc, ap, i, hi) ==
    IF i >= hi THEN acc
    ELSE k_FreeRange(k_free_ind(acc, ap[i + 1]), ap, i + 1, hi)

\* The allocating calls of one fold are numbered in the order they are made:
\* call 0 is create_pop, calls 1 .. P->size are the ind_copy of the incoming
\* members, the following ones the ind_copy of the survivors, of which there
\* are at most t = archive->size + P->size.  F is the set of the calls in
\* which chk_malloc returns NULL: none, or any one of them.
KFailChoices(Pp, arch) ==
    {{}} \cup {{k} : k \in 0 .. Pp.size + (arch.size + Pp.size)}

\* extractPtoArchive, first loops: archiveAndP takes the archive's pointers,
\* then a copy of every member of P.  acc = [h, ap, failed].  When an
\* ind_copy returns NULL the copies made so far are freed and the loop is
\* left (part_001:736-743).
KAppendAP(acc, r, from) ==
    IF r.a = NULL
    THEN [h |-> k_FreeRange([h |-> acc.h, df |-> FALSE], acc.ap, from, Len(acc.ap)).h,
          ap |-> acc.ap, failed |-> TRUE]
    ELSE [h |-> r.h, ap |-> Append(acc.ap, r.a), failed |-> FALSE]
RECURSIVE k_CopyIn(_, _, _, _, _)
k_CopyIn(acc, Pp, i, from, F) ==
    IF i >= Pp.size \/ acc.failed THEN acc
    ELSE k_CopyIn(KAppendAP(acc, k_ind_copy(acc.h, Pp.ind_array[i + 1], (i + 1) \in F), from),
                  Pp, i + 1, from, F)

\* The individuals ap points to.
KVals(h, ap) == [n \in 1 .. Len(ap) |-> h[ap[n]].val]

\* The loop over j, with its break: t + 1 when the scan was stopped.
RECURSIVE k_ScanJ(_, _, _)
k_ScanJ(U, i, j) ==
    IF j >= Len(U) THEN j
    ELSE IF ScanStops(U, i, j) THEN Len(U) + 1
    ELSE k_ScanJ(U, i, j + 1)

\* The loop over i: a survivor is copied into the archive while
\* archive->size < archive->maxsize; what ind_copy returns is stored and
\* counted untested, NULL included (part_001:761-762).
\* acc = [h, arr, conv, c], c the number of the next allocating call.
KKeep(acc, r, new) ==
    [h |-> r.h, arr |-> Append(acc.arr, r.a),
     conv |-> IF new THEN acc.conv + 1 ELSE acc.conv,
     c |-> acc.c + 1]
RECURSIVE k_KeepLoop(_, _, _, _, _, _)
k_KeepLoop(acc, ap, psize, maxsize, i, F) ==
    IF i >= Len(ap) THEN acc
    ELSE IF k_ScanJ(KVals(acc.h, ap), i, 0) = Len(ap) /\ Len(acc.arr) < maxsize
         THEN k_KeepLoop(KKeep(acc, k_ind_copy(acc.h, ap[i + 1], acc.c \in F),
                               CountsAsNew(i, Len(ap), psize)),
                         ap, psize, maxsize, i + 1, F)
         ELSE k_KeepLoop(acc, ap, psize, maxsize, i + 1, F)

\* What a fold hands back: the heap, whether an individual was freed twice
\* (df) or a NULL member was dereferenced (npe), the archive and the count.
k_FoldOut(h, df, npe, arch, ret) ==
    [h |-> h, df |-> df, npe |-> npe, archive |-> arch, ret |-> ret]

\* The end of extractPtoArchive: free_ind on archiveAndP[archive->size .. t-1],
\* then complete_free_pop(archiveAndP), which calls free_ind on all of
\* archiveAndP[0 .. t-1].
k_FoldFreed(arch, kept, fr) ==
    k_FoldOut(fr.h, fr.df, FALSE,
              [arch EXCEPT !.size = Len(kept.arr), !.ind_array = kept.arr],
              kept.conv)
k_FoldEnd(arch, kept, ap) ==
    k_FoldFreed(arch, kept,
        k_FreeRange(k_FreeRange([h |-> kept.h, df |-> FALSE],
                                ap, Len(kept.arr), Len(ap)),
                    ap, 0, Len(ap)))
\* A NULL member among archiveAndP (left in the archive by a fold whose
\* ind_copy of a survivor failed) is read through by non_dominated as soon as
\* there are two elements to compare (part_001:752); when it is the only
\* element it is handed to ind_copy (761), which reads through it after its
\* create_ind, and not at all when that create_ind fails (595-596).
KReadsNull(ap, maxsize, psize, F) ==
    /\ \E n \in 1 .. Len(ap) : ap[n] = NULL
    /\ Len(ap) > 1 \/ (maxsize > 0 /\ (psize + 1) \notin F)
\* The fold of a NULL member alone that is not read through: the NULL that
\* ind_copy returned is stored and counted when the archive has room; the
\* clean-up skips NULL entries.
k_FoldOfNull(h, arch) ==
    k_FoldOut(h, FALSE, FALSE,
              [arch EXCEPT !.size = IF arch.maxsize > 0 THEN 1 ELSE 0,
                           !.ind_array = IF arch.maxsize > 0 THEN <<NULL>> ELSE <<>>],
              0)
k_FoldScan(arch, psize, cp, F) ==
    IF cp.failed THEN k_FoldOut(cp.h, FALSE, FALSE, arch, 0)
    ELSE IF KReadsNull(cp.ap, arch.maxsize, psize, F) THEN k_FoldOut(cp.h, FALSE, TRUE, arch, 0)
    ELSE IF cp.ap = <<NULL>> THEN k_FoldOfNull(cp.h, arch)
    ELSE k_FoldEnd(arch,
                   k_KeepLoop([h |-> cp.h, arr |-> <<>>, conv |-> 0, c |-> psize + 1],
                              cp.ap, psize, arch.maxsize, 0, F),
                   cp.ap)

\* extractPtoArchive(P, archive) of the knapsack core, on heap h, with the
\* allocating calls F failing.  create_pop returning NULL ends the call with
\* 0 (part_001:726-727); the members of P are copied in, then the scan.
k_extractPtoArchive(h, Pp, arch, F) ==
    IF 0 \in F THEN k_FoldOut(h, FALSE, FALSE, arch, 0)
    ELSE k_FoldScan(arch, Pp.size,
                    k_CopyIn([h |-> h, ap |-> SubSeq(arch.ind_array, 1, arch.size),
                              failed |-> FALSE], Pp, 0, arch.size, F), F)

\* convert_population_to_result: one solution per member of the archive; a
\* NULL member gives the solution as it was initialised, all zeros
\* (part_001:1267-1276).  When a chk_malloc of the result, of its solutions
\* array or of the arrays of a solution returns NULL (nomem), what was
\* allocated is freed and NULL is returned, as it is for an empty
\* population; knapsack_solve then returns KNAPSACK_ERROR_MEMORY.
Sol(x) == [items |-> x.Items, objectives |-> x.f, capacities_used |-> x.capa]
ZeroSol == [items |-> [i \in ItemIdx |-> 0], objectives |-> [k \in ObjIdx |-> 0],
            capacities_used |-> [k \in ObjIdx |-> 0]]
convert_population_to_result(h, pp, nomem) ==
    IF pp.size <= 0 \/ nomem THEN [rc |-> "ERROR_MEMORY", sols |-> <<>>]
    ELSE [rc |-> "SUCCESS",
          sols |-> [n \in 1 .. pp.size |->
                      IF pp.ind_array[n] = NULL THEN ZeroSol
                      ELSE Sol(h[pp.ind_array[n]].val)]]

\* complete_free_pop(solutions); complete_free_pop(archive).
k_Cleanup(h, sp, arch) ==
    k_FreeRange(k_FreeRange([h |-> h, df |-> FALSE], sp.ind_array, 0, sp.size),
                arch.ind_array, 0, arch.size).h

\* simple_local_search, the perturbation of one individual: num_changes = 1
\* (perturbation_rate 0.05), one entry of Items is flipped, then evaluate.
Perturb(x, item) ==
    k_evaluate([x EXCEPT !.Items = [i \in ItemIdx |->
                                      IF i = item THEN 1 - x.Items[i] ELSE x.Items[i]]])

\* The globals capacities, weights and profits of the knapsack core are NULL
\* until setup_global_data sets them (part_001:966-971).  cleanup_global_data
\* frees the tables through the local pointers and sets those to NULL
\* (976-1003); the three globals keep pointing at the freed blocks.  What a
\* read through such a pointer returns is undefined and nothing here reads
\* through it: Dangling stands for the pointer.
NoTable == <<>>
Dangling == <<"freed">>
GlobalsNull == capacities = NoTable /\ weights = NoTable /\ profits = NoTable
setup_global_data ==
    /\ capacities' = TestCapacities
    /\ weights' = TestWeights
    /\ profits' = ProfitTable
cleanup_global_data ==
    /\ capacities' = Dangling
    /\ weights' = Dangling
    /\ profits' = Dangling

\* knapsack_solve called with problem = NULL or result = NULL: nothing is
\* touched, KNAPSACK_ERROR_NULL_PTR.
KSolveNullPtr ==
    /\ kpc = "idle"
    /\ kres' = [rc |-> "ERROR_NULL_PTR", sols |-> <<>>]
    /\ kpc' = "error"
    /\ UNCHANGED <<problemVars, restOfSolve, kheap, ksol, karch, kpar, kiter, kinit>>

\* knapsack_solve when a chk_malloc of setup_global_data returns NULL: the
\* globals are set by the last lines of setup_global_data only, so they stay
\* NULL; *result = NULL, KNAPSACK_ERROR_MEMORY.
KSolveSetupFails ==
    /\ kpc = "idle"
    /\ \E ps \in 1 .. MaxPop, mi \in 0 .. MaxIter :
          kpar' = [population_size |-> ps, max_iterations |-> mi]
    /\ kres' = [rc |-> "ERROR_MEMORY", sols |-> <<>>]
    /\ kpc' = "error"
    /\ UNCHANGED <<problemVars, restOfSolve, kheap, ksol, karch, kiter, kinit>>

\* knapsack_solve when create_pop returns NULL for solutions or for archive:
\* cleanup_global_data frees the tables setup_global_data has just filled,
\* the population that was created is freed, KNAPSACK_ERROR_MEMORY.
KSolvePopFails ==
    /\ kpc = "idle"
    /\ cleanup_global_data
    /\ \E ps \in 1 .. MaxPop, mi \in 0 .. MaxIter :
          kpar' = [population_size |-> ps, max_iterations |-> mi]
    /\ kres' = [rc |-> "ERROR_MEMORY", sols |-> <<>>]
    /\ kpc' = "error"
    /\ UNCHANGED <<restOfSolve, kheap, ksol, karch, kiter, kinit>>

\* knapsack_solve, up to random_init_pop: setup_global_data copies the tables
\* of the problem, then individuals are created one after the other, each
\* with a random order, and evaluated on them (v keeps what malloc left).
\* `made` of the population_size individuals are there when random_init_pop
\* returns: all of them, or those created before a create_ind returned
\* NULL, with SP->size = made (part_001:682-686).  The archive has maxsize
\* population_size * 10.
KSolveStart ==
    /\ kpc = "idle"
    /\ setup_global_data
    /\ \E ps \in 1 .. MaxPop, mi \in 0 .. MaxIter :
       \E made \in 0 .. ps :
       \E ds \in [1 .. made -> Perms], jv \in [1 .. made -> JunkV] :
          /\ kpar' = [population_size |-> ps, max_iterations |-> mi]
          /\ kinit' = [n \in 1 .. made |->
                         k_evaluate([FreshInd(7, 1) EXCEPT !.d = ds[n], !.v = jv[n]])']
          /\ kheap' = [a \in KAddr |->
                         IF a <= made THEN [live |-> TRUE, val |-> kinit'[a]]
                         ELSE kheap[a]]
          /\ ksol' = [alloc |-> TRUE, size |-> made, maxsize |-> ps,
                      ind_array |-> [n \in 1 .. made |-> n]]
          /\ karch' = create_pop(ps * 10)
    /\ kiter' = 0
    /\ kpc' = "loop"
    /\ UNCHANGED <<restOfSolve, kres>>

\* The process is killed inside the call: a NULL member was read through
\* (SIGSEGV), or an individual was freed twice and the allocator found it
\* out and aborted.  free() of a freed block is undefined: the allocator may
\* as well not notice, and the call then goes on with what the fold left.
KCrash ==
    /\ kpc' = "crashed"
    /\ UNCHANGED <<problemVars, restOfSolve, kheap, ksol, karch, kpar, kiter, kinit, kres>>

\* The loop body, first half: extractPtoArchive(solutions, archive).
KIterFold ==
    /\ kpc = "loop" /\ kiter < kpar.max_iterations
    /\ \E F \in KFailChoices(ksol, karch) :
       \E r \in {k_extractPtoArchive(kheap, ksol, karch, F)} :
          \/ (r.df \/ r.npe) /\ KCrash
          \/ /\ ~r.npe
             /\ kheap' = r.h
             /\ karch' = r.archive
             /\ kpc' = "search"
             /\ UNCHANGED <<problemVars, restOfSolve, ksol, kpar, kiter, kinit, kres>>

\* The heap after every individual of SP was perturbed (items[n] is the item
\* irand(ni) drew for individual n) and evaluated.
KPerturbed(h, sp, items) ==
    [a \in KAddr |->
        IF a \in 1 .. sp.size
        THEN [live |-> TRUE, val |-> Perturb(h[a].val, items[a])]
        ELSE h[a]]

\* The loop body, second half: simple_local_search(solutions, archive, 1)
\* perturbs and evaluates every individual, then folds.
KLocalSearch ==
    /\ kpc = "search"
    /\ \E hp \in {KPerturbed(kheap, ksol, items) : items \in [1 .. ksol.size -> ItemIdx]},
          F \in KFailChoices(ksol, karch) :
       \E r \in {k_extractPtoArchive(hp, ksol, karch, F)} :
          \/ (r.df \/ r.npe) /\ KCrash
          \/ /\ ~r.npe
             /\ kheap' = r.h
             /\ karch' = r.archive
             /\ kiter' = kiter + 1
             /\ kpc' = "loop"
             /\ UNCHANGED <<problemVars, restOfSolve, ksol, kpar, kinit, kres>>

\* After the loop: the final extractPtoArchive, the conversion of the archive
\* and the cleanup of the two populations and of the global tables; the
\* call returns KNAPSACK_SUCCESS, or KNAPSACK_ERROR_MEMORY when the
\* conversion gave NULL.  One allocation at most fails in the step: one of
\* the fold (F), or one of the conversion (nomem).
KFinish ==
    /\ kpc = "loop" /\ kiter >= kpar.max_iterations
    /\ \E F \in KFailChoices(ksol, karch) :
       \E r \in {k_extractPtoArchive(kheap, ksol, karch, F)} :
          \/ (r.df \/ r.npe) /\ KCrash
          \/ /\ ~r.npe
             /\ \E nomem \in IF F = {} THEN BOOLEAN ELSE {FALSE} :
                   /\ kres' = convert_population_to_result(r.h, r.archive, nomem)
                   /\ kpc' = IF nomem \/ r.archive.size <= 0 THEN "error" ELSE "returned"
             /\ kheap' = k_Cleanup(r.h, ksol, r.archive)
             /\ karch' = NullPop
             /\ ksol' = NullPop
             /\ cleanup_global_data
             /\ UNCHANGED <<restOfSolve, kpar, kiter, kinit>>

\* knapsack_free_result(*result) after the call has returned: the arrays of
\* every solution, the solutions array and the result are freed; nothing
\* is done for a NULL result.
knapsack_free_result(res) == [res EXCEPT !.sols = <<>>]
KFreeResult ==
    /\ kpc \in {"returned", "error"}
    /\ kres' = knapsack_free_result(kres)
    /\ kpc' = "freed"
    /\ UNCHANGED <<problemVars, restOfSolve, kheap, ksol, karch, kpar, kiter, kinit>>

SolveInit ==
    /\ GlobalsNull
    /\ EvalIdle /\ CopyIdle /\ FoldIdle /\ WeightsIdle /\ SearchIdle /\ CompareIdle /\ SelectIdle /\ LibraryIdle /\ WrapperIdle /\ AllocFoldIdle /\ GenerationsIdle /\ SweepIdle /\ SampleIdle
    /\ SolveIdle

SolveNext ==
    \/ KSolveNullPtr \/ KSolveSetupFails \/ KSolvePopFails \/ KSolveStart
    \/ KIterFold \/ KLocalSearch \/ KFinish \/ KFreeResult
SpecSolve == SolveInit /\ [][SolveNext]_vars

KDone == kpc \in {"returned", "crashed"}
KNonDominated == { n \in 1 .. Len(kinit) : \A o \in 1 .. Len(kinit) : ~DominatedBy(kinit[n], kinit[o]) }
KResults == 1 .. Len(kres.sols)

\* The objectives of the greedy pack of order d, from position j on with
\* capa used, on the tables of the problem passed to knapsack_solve.
RECURSIVE ProblemPack(_, _, _)
ProblemPack(d, j, capa) ==
    IF j >= NI THEN [k \in ObjIdx |-> 0]
    ELSE IF \A k \in ObjIdx : capa[k] + TestWeights[k][d[j]] <= TestCapacities[k]
         THEN [k \in ObjIdx |->
                 ProfitTable[k][d[j]]
                 + ProblemPack(d, j + 1, [o \in ObjIdx |-> capa[o] + TestWeights[o][d[j]]])[k]]
         ELSE ProblemPack(d, j + 1, capa)

\* C9, as stated: with max_iterations = 0 knapsack_solve returns exactly the
\* non-dominated, duplicate-free subset of the initial population; with
\* population_size = 1 that is one solution, within the capacities, whose
\* objectives are those of the greedy pack of the individual's order.
C9_AsStated ==
    (KDone /\ kpar.max_iterations = 0) =>
        /\ kpc = "returned"
        /\ kres.rc = "SUCCESS"
        /\ { kres.sols[n].objectives : n \in KResults } = { kinit[n].f : n \in KNonDominated }
        /\ \A a, b \in KResults : a # b => kres.sols[a].objectives # kres.sols[b].objectives
        /\ \A n \in KResults : \E o \in KNonDominated : kres.sols[n] = Sol(kinit[o])
        /\ (kpar.population_size = 1) =>
              /\ Len(kres.sols) = 1
              /\ \A k \in ObjIdx : kres.sols[1].capacities_used[k] <= TestCapacities[k]
              /\ kres.sols[1].objectives =
                     ProblemPack(kinit[1].d, 0, [k \in ObjIdx |-> 0])


\* ------------------------------------------------------ the two comparators
\* Objective values compared.
FVals == 0 .. 3

\* dominates(a, b): the loop stops at the first objective where a is greater
\* ("a_is_worse"); equal is accumulated over the objectives visited.
RECURSIVE DominatesLoop(_, _, _, _, _)
DominatesLoop(a, b, i, a_is_worse, equal) ==
    IF i < NF /\ ~a_is_worse
    THEN DominatesLoop(a, b, i + 1, a.f[i] > b.f[i], (a.f[i] = b.f[i]) /\ equal)
    ELSE IF ~equal /\ ~a_is_worse THEN 1 ELSE 0
dominates(a, b) == DominatesLoop(a, b, 0, FALSE, TRUE)

WithF(fv) == [FreshInd(0, 0) EXCEPT !.f = fv]

CompareInit ==
    /\ TestProblem
    /\ EvalIdle /\ CopyIdle /\ FoldIdle /\ WeightsIdle /\ SolveIdle /\ SearchIdle /\ SelectIdle /\ LibraryIdle /\ WrapperIdle /\ AllocFoldIdle /\ GenerationsIdle /\ SweepIdle /\ SampleIdle
    /\ \E fa, fb \in [ObjIdx -> FVals] :
          cmp = [a |-> fa, b |-> fb, dominates |-> 0, non_dominated |-> 0, pc |-> "ready"]

\* dominates(a, b) and non_dominated(b, a) on the same pair.
Compare ==
    /\ cmp.pc = "ready"
    /\ cmp' = [a |-> cmp.a, b |-> cmp.b,
               dominates     |-> dominates(WithF(cmp.a), WithF(cmp.b)),
               non_dominated |-> non_dominated(WithF(cmp.b), WithF(cmp.a)),
               pc |-> "compared"]
    /\ UNCHANGED <<problemVars, restOfCompare>>

CompareNext == Compare
SpecCompare == CompareInit /\ [][CompareNext]_vars

\* C11, as stated: dominates(a, b) is true exactly when
\* non_dominated(b, a) = -1.
C11_AsStated ==
    (cmp.pc = "compared") => ((cmp.dominates = 1) <=> (cmp.non_dominated = -1))


\* ------------------------------------------- compute_fitness_and_select
\* Fitness is counted in units of smallValue (1e-7f).  The indicator itself
\* (calcIndicatorValue) is an input: c[y][m] is the term
\* exp(-calcIndicatorValue(y, m, ...) / kappa) that member y contributes to
\* the fitness of m, in the same units.  An individual is its id (which
\* names its row and column of c) and its fitness.
smallValue == 1
MemberIds  == {1, 2}
CandId     == 3
Terms      == {1, 2}

init_fitness(x) == [id |-> x.id, fitness |-> 0]
\* delete_fitness and update_fitness have the same body: x->fitness += term.
delete_fitness(x, term) == [id |-> x.id, fitness |-> x.fitness + term]
update_fitness(x, term) == [id |-> x.id, fitness |-> x.fitness + term]

RECURSIVE FitnessLoop(_, _, _, _)
FitnessLoop(x, SP, c, i) ==
    IF i >= Len(SP) THEN x
    ELSE FitnessLoop(update_fitness(x, c[SP[i + 1].id][x.id]), SP, c, i + 1)
compute_ind_fitness(x, SP, c) == FitnessLoop(init_fitness(x), SP, c, 0)
compute_all_fitness(SP, c) == [n \in 1 .. Len(SP) |-> compute_ind_fitness(SP[n], SP, c)]

\* The scan for the worst member: the first one of least fitness.
RECURSIVE WorstLoop(_, _, _)
WorstLoop(SP, i, worst) ==
    IF i >= Len(SP) THEN worst
    ELSE WorstLoop(SP, i + 1, IF SP[i + 1].fitness < SP[worst + 1].fitness THEN i ELSE worst)

\* The branch fit_tmp > worst_fit: every member gets the term of the worst
\* through delete_fitness and the term of x through update_fitness, x gets
\* the term of the worst through delete_fitness, and SP[worst] = ind_copy(x).
Reweighed(SP, xf, c, worst) ==
    [n \in 1 .. Len(SP) |->
        IF n = worst + 1
        THEN delete_fitness(xf, c[SP[worst + 1].id][xf.id])
        ELSE update_fitness(delete_fitness(SP[n], c[SP[worst + 1].id][SP[n].id]),
                            c[xf.id][SP[n].id])]
\* `fit_tmp - worst_fit > smallValue`: the fitness values are floats, widened
\* to double for the difference, and smallValue is the float 0.0000001f.
\* When the two values differ by exactly one unit the rounding of the floats
\* decides the test (3e-7f - 2e-7f exceeds 1e-7f, 4e-7f - 3e-7f does not):
\* `over` is what it decides.
GainExceeds(gain, over) == gain > smallValue \/ (gain = smallValue /\ over)

SelectOut(SP, xf, c, worst, over) ==
    IF xf.fitness > SP[worst + 1].fitness
    THEN [SP |-> Reweighed(SP, xf, c, worst),
          x  |-> delete_fitness(xf, c[SP[worst + 1].id][xf.id]),
          worst |-> worst, replaced |-> TRUE,
          ret |-> IF GainExceeds(xf.fitness - SP[worst + 1].fitness, over)
                  THEN worst ELSE -1]
    ELSE [SP |-> SP, x |-> xf, worst |-> worst, replaced |-> FALSE, ret |-> -1]
compute_fitness_and_select(SP, x, c, over) ==
    SelectOut(SP, compute_ind_fitness(x, SP, c), c, WorstLoop(SP, 1, 0), over)

\* SP as compute_all_fitness left it, for every table of terms.
SelectInit ==
    /\ TestProblem
    /\ EvalIdle /\ CopyIdle /\ FoldIdle /\ WeightsIdle /\ SolveIdle /\ SearchIdle /\ CompareIdle /\ LibraryIdle /\ WrapperIdle /\ AllocFoldIdle /\ GenerationsIdle /\ SweepIdle /\ SampleIdle
    /\ \E c \in [MemberIds \cup {CandId} -> [MemberIds \cup {CandId} -> Terms]] :
       \E sp \in {compute_all_fitness([n \in MemberIds |-> [id |-> n, fitness |-> -1]], c)} :
          sel = [c |-> c, SP |-> sp, x |-> [id |-> CandId, fitness |-> -1], before |-> sp,
                 worst |-> 0, replaced |-> FALSE, ret |-> 0, pc |-> "ready"]

Select ==
    /\ sel.pc = "ready"
    /\ \E r \in {compute_fitness_and_select(sel.SP, sel.x, sel.c, over) : over \in BOOLEAN} :
          sel' = [c |-> sel.c, SP |-> r.SP, x |-> r.x, before |-> sel.SP,
                  worst |-> r.worst, replaced |-> r.replaced, ret |-> r.ret, pc |-> "done"]
    /\ UNCHANGED <<problemVars, restOfSelect>>

SelectNext == Select
SpecSelect == SelectInit /\ [][SelectNext]_vars

\* C12, as stated: a slot index is returned exactly when the least-fit
\* member was replaced by a copy of x, and it is that member's slot; -1 is
\* returned exactly when SP is unchanged (no member replaced, no fitness
\* altered).
C12_AsStated ==
    (sel.pc = "done") =>
        /\ (sel.ret # -1) <=> sel.replaced
        /\ (sel.ret # -1) => /\ sel.ret = sel.worst
                             /\ \A n \in 1 .. Len(sel.before) :
                                   sel.before[sel.worst + 1].fitness <= sel.before[n].fitness
                             /\ sel.SP[sel.worst + 1] = sel.x
        /\ (sel.ret = -1) <=> (sel.SP = sel.before)


\* C20, as stated: after an accepted replacement every remaining member has
\* its old fitness minus the term of the evicted member plus the term of the
\* candidate, which is the fitness a full recomputation against the new
\* population gives.
C20_AsStated ==
    (sel.pc = "done" /\ sel.replaced) =>
        \A n \in 1 .. Len(sel.SP) :
            (n # sel.worst + 1) =>
                /\ sel.SP[n].fitness =
                      sel.before[n].fitness
                      - sel.c[sel.before[sel.worst + 1].id][sel.SP[n].id]
                      + sel.c[CandId][sel.SP[n].id]
                /\ sel.SP[n].fitness = compute_ind_fitness(sel.SP[n], sel.SP, sel.c).fitness

\* ------------------------------------- the search: mokp_run_single_iteration
\* The parameters of the run: population_size, archive_size, and how many
\* generations are followed.
Alpha       == 1
ArchiveSize == 4
MaxGen      == 2

Max(a, b) == IF a > b THEN a ELSE b

\* The orders random_init_ind gives the new individuals of a generation.
SearchOrders == { [j \in ItemIdx |-> j], [j \in ItemIdx |-> NI - 1 - j] }

\* A fitness is a sum of terms exp(-calcIndicatorValue(...) / kappa), counted
\* in units of smallValue.  calcIndicatorValue is declared (part_001:478) and
\* defined in none of the files, so every sum the search stores is drawn.
FitVals == 1 .. 3
WithFitness(x, fit) == [fitness |-> fit] @@ x

\* calcul_weight: v = f * vector_weight for every member.
Scalarize(x, vw) == [x EXCEPT !.v = [k \in ObjIdx |-> x.f[k] * vw[k]]]
calcul_weight(SP, vw) ==
    [SP EXCEPT !.ind_array = [n \in 1 .. SP.size |-> Scalarize(SP.ind_array[n], vw)]]

\* compute_all_fitness: compute_ind_fitness for every member; fs[n] is the
\* sum member n gets.
search_compute_all_fitness(SP, fs) ==
    [SP EXCEPT !.ind_array = [n \in 1 .. SP.size |-> WithFitness(SP.ind_array[n], fs[n])]]

\* P_init_pop: the shuffle (xs[i] is the i-th value of irand(alpha)), then
\* member i is a copy of Sarchive[shuffle[i]] or, when the archive has no
\* such member, a new random individual, evaluated.  The new individuals are
\* created slot after slot: the k-th of them gets the order ds[k], and
\* jv[k] is what malloc left in its v array, which nothing here writes.
\* (variant: shuffle[i] is overwritten and shuffle[x] kept)
SwapEntries_overwrite(sh, a, b) ==
    [k \in DOMAIN sh |-> IF k = a THEN sh[b] ELSE sh[k]]
SwapEntries(sh, a, b) ==
    [k \in DOMAIN sh |-> IF k = a THEN sh[b] ELSE IF k = b THEN sh[a] ELSE sh[k]]
RECURSIVE ShuffleLoop(_, _, _)
ShuffleLoop(sh, xs, i) ==
    IF i \notin DOMAIN sh THEN sh
    ELSE ShuffleLoop(SwapEntries(sh, i, xs[i]), xs, i + 1)
NewCount(Sarchive, a) == IF Sarchive.size >= a THEN 0 ELSE a - Sarchive.size
CreatedUpTo(Sarchive, shuffle, n) ==
    Cardinality({m \in 1 .. n : shuffle[m - 1] >= Sarchive.size})
InitFrom(Sarchive, a, shuffle, ds, jv) ==
    [alloc |-> TRUE, size |-> a, maxsize |-> a,
     ind_array |-> [n \in 1 .. a |->
        IF Sarchive.size > a \/ shuffle[n - 1] < Sarchive.size
        THEN CopyVal(Sarchive.ind_array[shuffle[n - 1] + 1])
        ELSE evaluate([FreshInd(0, 0)
                         EXCEPT !.d = ds[CreatedUpTo(Sarchive, shuffle, n)],
                                !.v = jv[CreatedUpTo(Sarchive, shuffle, n)]])]]
P_init_pop(Sarchive, a, xs, ds, jv) ==
    InitFrom(Sarchive, a,
             ShuffleLoop([k \in 0 .. Max(a, Sarchive.size) - 1 |-> k], xs, 0), ds, jv)

\* irand(NBITEMS) returns an index of 0 .. NBITEMS - 1, and the library leaves
\* NBITEMS at 250 whatever ni is: Beyond are the indices that are no index of
\* x->Items, x->Items[index] being a word of the heap after the array.
Beyond == NI .. NBITEMS - 1

\* weights[r][index] and profits[r][index] as the search reads them (rows of
\* MAX_NBITEMS ints): the columns from ni on were never loaded and hold 0.
WeightOf(r, p) == IF p \in ItemIdx THEN weights[r][p] ELSE 0
ProfitOf(r, p) == IF p \in ItemIdx THEN profits[r][p] ELSE 0

\* x->Items[it] = v for one of the ni items.
SetItem(x, it, v) == [x EXCEPT !.Items = [i \in ItemIdx |-> IF i = it THEN v ELSE x.Items[i]]]

\* The counts and totals of x when an item is put in (s = 1) or taken out
\* (s = -1).
Adjust(x, p, s) ==
    [x EXCEPT !.nombr = @ + s,
              !.nombr_nonpris = @ - s,
              !.capa = [r \in ObjIdx |-> x.capa[r] + s * WeightOf(r, p)],
              !.f    = [r \in ObjIdx |-> x.f[r] + s * ProfitOf(r, p)]]
Take(x, p) == Adjust(SetItem(x, p, 0), p, -1)
Put(x, p)  == Adjust(SetItem(x, p, 1), p, 1)

\* The two tests of an insertion: consistant (every capacity holds) and
\* feasible (the index is not among remplace[0 .. taille-1]; the do-while
\* reads remplace[0] even when taille = 0).
Fits(x, p) == \A r \in ObjIdx : x.capa[r] + WeightOf(r, p) <= capacities[r]
Untried(st, p) == \A r \in 0 .. Max(st.taille, 1) - 1 : st.remplace[r] # p

\* The unwind of a rejected step: mino is put back, the inserted items are
\* taken out, v being recomputed after each of them.
RECURSIVE UnwindLoop(_, _, _, _)
UnwindLoop(x, st, vw, r) ==
    IF r >= st.taille THEN x
    ELSE UnwindLoop(Scalarize(Take(x, st.remplace[r]), vw), st, vw, r + 1)
Unwind(x, st, vw) == UnwindLoop(Put(x, st.mino), st, vw, 0)

\* compute_fitness_and_select(SP, x): x gets the sum xf; the worst member is
\* the first of least fitness; when xf exceeds its fitness every member's
\* fitness is rewritten (fs[n] for member n), x's grows to xf2, and
\* SP[worst] = ind_copy(x); the slot is returned when the gain exceeds
\* smallValue (over: what the rounding decides for a gain of one unit), -1
\* otherwise.
search_select(sp, x, xf, fs, xf2, over) ==
    IF xf > sp.ind_array[WorstLoop(sp.ind_array, 1, 0) + 1].fitness
    THEN [SP |-> [sp EXCEPT !.ind_array = [n \in 1 .. sp.size |->
                     IF n = WorstLoop(sp.ind_array, 1, 0) + 1
                     THEN CopyVal(WithFitness(x, xf2))
                     ELSE WithFitness(sp.ind_array[n], fs[n])]],
          x  |-> WithFitness(x, xf2),
          ret |-> IF GainExceeds(xf - sp.ind_array[WorstLoop(sp.ind_array, 1, 0) + 1].fitness,
                                 over)
                  THEN WorstLoop(sp.ind_array, 1, 0) ELSE -1]
    ELSE [SP |-> sp, x |-> WithFitness(x, xf), ret |-> -1]

\* What compute_fitness_and_select can make of SP and the trial x, over the
\* sums drawn.
SelectOutcomes(sp, x) ==
    { search_select(sp, x, q[1], q[2], q[3], q[4]) :
        q \in { u \in FitVals \X [1 .. sp.size -> FitVals] \X FitVals \X BOOLEAN :
                   u[3] >= u[1] } }

\* The swap of SP[i + 1] and SP[sol] when sol > i.
Swapped(sp, i, sol) ==
    IF sol > i
    THEN [sp EXCEPT !.ind_array = [n \in 1 .. sp.size |->
            IF n = i + 2 THEN sp.ind_array[sol + 1]
            ELSE IF n = sol + 1 THEN sp.ind_array[i + 2]
            ELSE sp.ind_array[n]]]
    ELSE sp
MarkExplored(sp, i) ==
    [sp EXCEPT !.ind_array = [n \in 1 .. sp.size |->
        IF n = i + 1 THEN [explored |-> 1] @@ sp.ind_array[n] ELSE sp.ind_array[n]]]

\* mokp_run_single_iteration up to the do-loop of Indicator_local_search1:
\* the two populations, choose_weight, P_init_pop, the fold into P,
\* calcul_weight, compute_all_fitness, and the first fold into the
\* generation's archive.
BeginIteration ==
    /\ lpc = "idle" /\ gen < MaxGen
    /\ dynamic_weight_allpop
    /\ \E xs \in [0 .. Max(Alpha, P.size) - 1 -> 0 .. Alpha - 1],
          ds \in [1 .. NewCount(P, Alpha) -> Perms],
          jv \in [1 .. NewCount(P, Alpha) -> JunkV],
          fs \in [1 .. Alpha -> FitVals] :
       \E sp0 \in {P_init_pop(P, Alpha, xs, ds, jv)} :
       \E sp1 \in {search_compute_all_fitness(
                      calcul_weight(sp0, [k \in ObjIdx |-> OBJ_Weights[k][nextLn]]), fs)} :
          /\ P' = extractPtoArchive(sp0, P).archive
          /\ solutions' = sp1
          /\ archive' = extractPtoArchive(sp1, create_pop(ArchiveSize)).archive
    /\ convergence' = 0
    /\ cur' = [i |-> 0, j |-> 0]
    /\ lpc' = "sweep"
    /\ UNCHANGED <<problemVars, restOfSearch, trial, step, gen>>

\* The sweep reaches a member that is explored: only the fold.
SkipExplored ==
    /\ lpc = "sweep" /\ cur.i < solutions.size
    /\ solutions.ind_array[cur.i + 1].explored # 0
    /\ \E r \in {extractPtoArchive(solutions, archive)} :
          /\ archive' = r.archive
          /\ convergence' = r.ret
    /\ cur' = [i |-> cur.i + 1, j |-> convergence]
    /\ UNCHANGED <<problemVars, restOfSearch, P, solutions, nextLn, vector_weight,
                   trial, step, gen, lpc>>

\* The sweep reaches a member that is not explored: x = ind_copy(SP[i]).
StartTrial ==
    /\ lpc = "sweep" /\ cur.i < solutions.size
    /\ solutions.ind_array[cur.i + 1].explored = 0
    /\ trial' = CopyVal(solutions.ind_array[cur.i + 1])
    /\ cur' = [i |-> cur.i, j |-> 0]
    /\ lpc' = "step"
    /\ UNCHANGED <<problemVars, restOfSearch, P, solutions, nextLn, vector_weight,
                   archive, step, convergence, gen>>

\* One removal, the index drawn being one of the ni items: remplace is
\* cleared, mino is drawn until x->Items[mino] is not 0, then taken out.
Remove ==
    /\ lpc = "step" /\ cur.j < trial.nombr
    /\ \E mino \in (0 .. NBITEMS - 1) \cap ItemIdx :
          /\ trial.Items[mino] # 0
          /\ trial' = Take(trial, mino)
          /\ step' = [mino |-> mino, IM |-> 0, remplace |-> NoStep.remplace, taille |-> 0,
                      before |-> trial, unwound |-> FALSE,
                      drawn |-> NoStep.drawn, put |-> FALSE]
    /\ lpc' = "insert"
    /\ UNCHANGED <<problemVars, restOfSearch, P, solutions, nextLn, vector_weight,
                   archive, cur, convergence, gen>>

\* One removal, the index drawn being beyond the ni items: the word read
\* there is not 0 and x->Items[mino] = 0 is a store outside the array.  The
\* process is aborted (at once, or when the allocator meets what was
\* overwritten), or it goes on with memory that is described nowhere here;
\* neither is followed further.
RemoveBeyond ==
    /\ lpc = "step" /\ cur.j < trial.nombr
    /\ Beyond # {}
    /\ \E outcome \in {"crashed", "overrun"} : lpc' = outcome
    /\ UNCHANGED <<problemVars, restOfSearch, P, solutions, nextLn, vector_weight,
                   archive, trial, cur, step, convergence, gen>>

\* What an insertion attempt leaves in step when nothing was put in.
NotPut(st, p) ==
    [mino |-> st.mino, IM |-> st.IM + 1, remplace |-> st.remplace, taille |-> st.taille,
     before |-> st.before, unwound |-> FALSE, drawn |-> p, put |-> FALSE]

\* One of the L insertion attempts, the index drawn being one of the ni
\* items: maxp is drawn until x->Items[maxp] is not 1, and put in when it is
\* not mino, fits and was not tried.
Attempt ==
    /\ lpc = "insert"
    /\ \E p \in (0 .. NBITEMS - 1) \cap ItemIdx :
          /\ trial.Items[p] # 1
          /\ IF p # step.mino /\ Fits(trial, p) /\ Untried(step, p)
             THEN /\ trial' = Put(trial, p)
                  /\ step' = [mino |-> step.mino, IM |-> step.IM + 1,
                              remplace |-> [l \in 0 .. L - 1 |->
                                              IF l = step.taille THEN p ELSE step.remplace[l]],
                              taille |-> step.taille + 1,
                              before |-> step.before, unwound |-> FALSE,
                              drawn |-> p, put |-> TRUE]
             ELSE /\ UNCHANGED trial
                  /\ step' = NotPut(step, p)
    /\ lpc' = IF step.IM + 1 < L THEN "insert" ELSE "select"
    /\ UNCHANGED <<problemVars, restOfSearch, P, solutions, nextLn, vector_weight,
                   archive, cur, convergence, gen>>

\* One of the L insertion attempts, the index drawn being beyond the ni
\* items and the word read there not 1: maxp is not mino, its weights are 0
\* and it is none of remplace, so when the trial is within every capacity
\* x->Items[maxp] = 1 is a store outside the array, with the outcomes of
\* RemoveBeyond.
AttemptBeyond ==
    /\ lpc = "insert"
    /\ IF \E p \in Beyond : p # step.mino /\ Fits(trial, p) /\ Untried(step, p)
       THEN /\ \E outcome \in {"crashed", "overrun"} : lpc' = outcome
            /\ UNCHANGED step
       ELSE /\ \E p \in Beyond : step' = NotPut(step, p)
            /\ lpc' = IF step.IM + 1 < L THEN "insert" ELSE "select"
    /\ UNCHANGED <<problemVars, restOfSearch, P, solutions, nextLn, vector_weight,
                   archive, trial, cur, convergence, gen>>

\* compute_fitness_and_select returns a slot: the trial replaced SP[sol].
Accept ==
    /\ lpc = "select"
    /\ \E r \in SelectOutcomes(solutions, Scalarize(trial, vector_weight)) :
          /\ r.ret # -1
          /\ trial' = r.x
          /\ solutions' = Swapped(r.SP, cur.i, r.ret)
          /\ cur' = [i |-> IF r.ret > cur.i THEN cur.i + 1 ELSE cur.i, j |-> r.x.nombr + 2]
    /\ lpc' = "step"
    /\ UNCHANGED <<problemVars, restOfSearch, P, nextLn, vector_weight,
                   archive, step, convergence, gen>>

\* compute_fitness_and_select returns -1: the trial was not fitter than the
\* worst, or it replaced the worst with a gain of at most smallValue.  The
\* step is unwound.
Reject ==
    /\ lpc = "select"
    /\ \E r \in SelectOutcomes(solutions, Scalarize(trial, vector_weight)) :
          /\ r.ret = -1
          /\ trial' = Unwind(r.x, step, vector_weight)
          /\ solutions' = r.SP
    /\ cur' = [i |-> cur.i, j |-> cur.j + 1]
    /\ step' = [step EXCEPT !.unwound = TRUE]
    /\ lpc' = "step"
    /\ UNCHANGED <<problemVars, restOfSearch, P, nextLn, vector_weight,
                   archive, convergence, gen>>

\* The end of the sweep of SP[i]: x is freed, SP[i] is marked explored when
\* j equals the trial's count, and SP is folded into the archive.
EndSweep ==
    /\ lpc = "step" /\ cur.j >= trial.nombr
    /\ \E sp \in {IF cur.j = trial.nombr THEN MarkExplored(solutions, cur.i) ELSE solutions} :
       \E r \in {extractPtoArchive(sp, archive)} :
          /\ solutions' = sp
          /\ archive' = r.archive
          /\ convergence' = r.ret
    /\ cur' = [i |-> cur.i + 1, j |-> convergence]
    /\ trial' = FreshInd(0, 0)
    /\ step' = NoStep
    /\ lpc' = "sweep"
    /\ UNCHANGED <<problemVars, restOfSearch, P, nextLn, vector_weight, gen>>

\* The end of a pass with a fold that returned non-zero: another pass.
NextPass ==
    /\ lpc = "sweep" /\ cur.i >= solutions.size
    /\ convergence # 0
    /\ convergence' = 0
    /\ cur' = [i |-> 0, j |-> cur.j]
    /\ UNCHANGED <<problemVars, restOfSearch, P, solutions, nextLn, vector_weight,
                   archive, trial, step, gen, lpc>>

\* The end of a pass whose last fold returned 0: the archive is folded into
\* P and the two populations are freed.
EndIteration ==
    /\ lpc = "sweep" /\ cur.i >= solutions.size
    /\ convergence = 0
    /\ P' = extractPtoArchive(archive, P).archive
    /\ solutions' = NullPop
    /\ archive' = NullPop
    /\ cur' = [i |-> 0, j |-> 0]
    /\ gen' = gen + 1
    /\ lpc' = "idle"
    /\ UNCHANGED <<problemVars, restOfSearch, nextLn, vector_weight,
                   trial, step, convergence>>

\* After mokp_initialize and mokp_initialize_population: P is empty.
SearchInit ==
    /\ TestProblem
    /\ EvalIdle /\ CopyIdle /\ WeightsIdle /\ SolveIdle /\ SearchIdle /\ CompareIdle /\ SelectIdle /\ LibraryIdle /\ WrapperIdle /\ AllocFoldIdle /\ GenerationsIdle /\ SweepIdle /\ SampleIdle
    /\ P = create_pop(ArchiveSize)
    /\ solutions = NullPop
    /\ fold = NoFold
    /\ fpc = "idle"

SearchNext ==
    \/ BeginIteration \/ SkipExplored \/ StartTrial \/ Remove \/ RemoveBeyond
    \/ Attempt \/ AttemptBeyond \/ Accept \/ Reject \/ EndSweep \/ NextPass \/ EndIteration
SpecSearch == SearchInit /\ [][SearchNext]_vars


\* ---------------------------------------------------------------------------
\* The library interface (mokp_dll.c): its globals, the initialisation gate
\* and the calls made through it.  Rates (perturbation_rate, kappa) are
\* counted in hundredths, so 0.05 is 5 and the interval [0,1] is 0 .. 100.
\* ---------------------------------------------------------------------------
MOKP_SUCCESS == 0
MOKP_ERROR_INVALID_PARAMETER == -1
MOKP_ERROR_FILE_NOT_FOUND == -2
MOKP_ERROR_MEMORY_ALLOCATION == -3
MOKP_ERROR_NOT_INITIALIZED == -4
MOKP_ERROR_INVALID_STATE == -5
MOKP_MAX_ITEMS == 250
MOKP_MAX_OBJECTIVES == 4

\* The k-th int of a table defined with rows of MAX_NBITEMS ints, of which
\* the first ni of the first nf rows were loaded and the others hold 0.
MAX_NBITEMS == 1000
TableInt(table, k) ==
    IF k \div MAX_NBITEMS \in ObjIdx /\ k % MAX_NBITEMS \in ItemIdx
    THEN table[k \div MAX_NBITEMS][k % MAX_NBITEMS] ELSE 0
\* weights[j][i] and profits[j][i] as mokp_dll.c reads them: the tables are
\* declared there with rows of 250 ints (extern int weights[][250]), so the
\* int read is number j * 250 + i of the table.
DllWeight(j, i) == TableInt(weights, j * MOKP_MAX_ITEMS + i)
DllProfit(j, i) == TableInt(profits, j * MOKP_MAX_ITEMS + i)

\* The largest front an iteration leaves in P, and the longest run asked for.
MaxFront == 2
MaxRun == 2

\* The number of calls a client makes in one run.
MaxLibCalls == 4

DefaultParams ==
    [max_iterations |-> 100, population_size |-> 10, archive_size |-> 28000,
     perturbation_rate |-> 5, kappa |-> 5, num_objectives |-> 2,
     num_items |-> 250, local_search_depth |-> 5]

\* The parameter blocks a caller passes: the defaults, and the defaults with
\* one field moved to or across the edge of its range.
ParamChoices ==
    {DefaultParams}
    \cup {[DefaultParams EXCEPT !.num_objectives = n] : n \in {0, 1, 5}}
    \cup {[DefaultParams EXCEPT !.num_items = n] : n \in {0, 251}}
    \cup {[DefaultParams EXCEPT !.population_size = 0]}
    \cup {[DefaultParams EXCEPT !.archive_size = 0]}
    \cup {[DefaultParams EXCEPT !.perturbation_rate = r] : r \in {-5, 150}}

NoPop == [null |-> TRUE, size |-> 0, maxsize |-> 0]

\* The globals as the loader leaves them (static initialisers).
LibGlobals ==
    [initialized |-> FALSE, crashed |-> FALSE, last_error |-> "",
     last_time |-> 0, g_params |-> DefaultParams,
     nf |-> 0, ni |-> 0, alpha |-> 10, perturbation_rate |-> 5, kappa |-> 5,
     P |-> NoPop, solutions |-> "NULL", archive |-> "NULL",
     nombreLIGNE |-> 0, nextLn |-> 0]

Ret(g, rc) == [g |-> g, rc |-> rc, out |-> <<>>, text |-> ""]
RetOut(g, rc, out) == [g |-> g, rc |-> rc, out |-> out, text |-> ""]
Crash(g) == Ret([g EXCEPT !.crashed = TRUE], 0)

set_error(g, msg) == [g EXCEPT !.last_error = msg]

check_initialized_open(g) == TRUE

check_initialized(g) == g.initialized

NotInitialized(g) ==
    Ret(set_error(g, "MOKP library not initialized"), MOKP_ERROR_NOT_INITIALIZED)

mokp_initialize(g) ==
    IF g.initialized THEN Ret(g, MOKP_SUCCESS)
    ELSE Ret([g EXCEPT !.last_error = "",
                       !.nf = g.g_params.num_objectives,
                       !.ni = g.g_params.num_items,
                       !.alpha = g.g_params.population_size,
                       !.perturbation_rate = g.g_params.perturbation_rate,
                       !.kappa = g.g_params.kappa,
                       !.archive = "NULL", !.P = NoPop, !.solutions = "NULL",
                       !.nombreLIGNE = 0, !.nextLn = 0,
                       !.initialized = TRUE], MOKP_SUCCESS)

mokp_cleanup(g) ==
    IF ~g.initialized THEN Ret(g, MOKP_SUCCESS)
    ELSE Ret([g EXCEPT !.archive = "NULL", !.P = NoPop, !.solutions = "NULL",
                       !.initialized = FALSE, !.last_error = ""], MOKP_SUCCESS)

\* A problem file: no path at all, a path that cannot be opened, or a file
\* whose header gives nf and ni.
ProblemFiles ==
    {[kind |-> "null", nf |-> 0, ni |-> 0], [kind |-> "missing", nf |-> 0, ni |-> 0],
     [kind |-> "file", nf |-> 3, ni |-> 100], [kind |-> "file", nf |-> 5, ni |-> 300]}

loadMOKP(g, file) ==
    IF file.kind = "file" THEN [g EXCEPT !.nf = file.nf, !.ni = file.ni] ELSE g

mokp_load_problem(g, file) ==
    IF ~check_initialized(g) THEN NotInitialized(g)
    ELSE IF file.kind = "null"
    THEN Ret(set_error(g, "Invalid problem file path"), MOKP_ERROR_INVALID_PARAMETER)
    ELSE Ret([loadMOKP(g, file) EXCEPT
                 !.g_params = [g.g_params EXCEPT
                                  !.num_objectives = loadMOKP(g, file).nf,
                                  !.num_items = loadMOKP(g, file).ni]],
             MOKP_SUCCESS)

\* A weights file: no path, a path that cannot be opened, or a file of rows.
WeightFiles ==
    {[kind |-> "null", rows |-> 0], [kind |-> "missing", rows |-> 0],
     [kind |-> "file", rows |-> 1]}

mokp_load_weights(g, file) ==
    IF ~check_initialized(g) THEN NotInitialized(g)
    ELSE IF file.kind = "null"
    THEN Ret(set_error(g, "Invalid weights file path"), MOKP_ERROR_INVALID_PARAMETER)
    ELSE IF file.kind = "file"
    THEN Ret([g EXCEPT !.nombreLIGNE = file.rows], MOKP_SUCCESS)
    ELSE Ret(g, MOKP_SUCCESS)

mokp_set_parameters(g, isNull, params) ==
    IF ~check_initialized(g) THEN NotInitialized(g)
    ELSE IF isNull
    THEN Ret(set_error(g, "Invalid parameters pointer"), MOKP_ERROR_INVALID_PARAMETER)
    ELSE IF params.num_objectives < 1 \/ params.num_objectives > MOKP_MAX_OBJECTIVES
    THEN Ret(set_error(g, "Invalid number of objectives"), MOKP_ERROR_INVALID_PARAMETER)
    ELSE IF params.num_items < 1 \/ params.num_items > MOKP_MAX_ITEMS
    THEN Ret(set_error(g, "Invalid number of items"), MOKP_ERROR_INVALID_PARAMETER)
    ELSE IF params.population_size < 1
    THEN Ret(set_error(g, "Invalid population size"), MOKP_ERROR_INVALID_PARAMETER)
    ELSE Ret([g EXCEPT !.g_params = params,
                       !.nf = params.num_objectives,
                       !.ni = params.num_items,
                       !.alpha = params.population_size,
                       !.perturbation_rate = params.perturbation_rate,
                       !.kappa = params.kappa], MOKP_SUCCESS)

ParamsOut(p) ==
    <<p.max_iterations, p.population_size, p.archive_size, p.perturbation_rate,
      p.kappa, p.num_objectives, p.num_items, p.local_search_depth>>

mokp_get_parameters(g, isNull) ==
    IF ~check_initialized(g) THEN NotInitialized(g)
    ELSE IF isNull
    THEN Ret(set_error(g, "Invalid parameters pointer"), MOKP_ERROR_INVALID_PARAMETER)
    ELSE RetOut(g, MOKP_SUCCESS, ParamsOut(g.g_params))

\* The allocation that fails during a call: none, the pop structure or the
\* pointer array of a create_pop, or one of create_ind.
Allocs == {"none", "struct", "array", "ind"}

\* create_pop asserts nf >= 0 and maxsize >= 0, writes size and maxsize
\* through the pointer chk_malloc returned, and writes NULL into each of the
\* maxsize entries of the array chk_malloc returned, testing neither: the
\* call does not return when an assertion fails, when the structure was not
\* allocated, or when the array was not and maxsize > 0.  It never returns
\* NULL.
CreatePopFails(maxsize, nfv, oom) ==
    maxsize < 0 \/ nfv < 0 \/ oom = "struct" \/ (oom = "array" /\ maxsize > 0)

mokp_initialize_population(g, oom) ==
    IF ~check_initialized(g) THEN NotInitialized(g)
    ELSE IF ~g.P.null THEN Ret(g, MOKP_SUCCESS)
    ELSE IF CreatePopFails(g.g_params.archive_size, g.nf, oom) THEN Crash(g)
    ELSE Ret([g EXCEPT !.P = [null |-> FALSE, size |-> 0,
                              maxsize |-> g.g_params.archive_size]], MOKP_SUCCESS)

\* dynamic_weight_allpop, as far as the line counter goes.
NextLine(g) ==
    [g EXCEPT !.nextLn = IF g.nextLn = g.nombreLIGNE THEN 0 ELSE g.nextLn + 1]

\* What one iteration needs from outside: the allocation that fails, the
\* size of the front the folds leave in P, the time measured (one tick), and
\* what a store outside an array does: the process is aborted, or it goes on.
IterInputs ==
    [oom : Allocs, front : 1 .. MaxFront, tick : {1}, overrun : {"crash", "go"}]

\* The stores of an iteration that land outside an array: x->Items[index]
\* for an index irand(NBITEMS) drew beyond the ni items (NBITEMS stays 250),
\* and archive->ind_array[archive->size++] of a fold whose front exceeds the
\* array.
StoresOutside(g, front) ==
    g.ni < NBITEMS \/ front > g.P.maxsize \/ front > g.g_params.archive_size

\* solutions = create_pop(alpha, nf); archive = create_pop(archive_size, nf).
CreateTemporaries(g) == [g EXCEPT !.solutions = "pop", !.archive = "pop"]

\* (variant: the temporary populations are freed, the globals keep pointing
\* at them)
FreeTemporaries_dangling(g) == g

\* complete_free_pop(solutions); complete_free_pop(archive); both set to NULL.
FreeTemporaries(g) == [g EXCEPT !.solutions = "NULL", !.archive = "NULL"]

\* create_pop never returning NULL, the test of solutions and archive that
\* follows the two calls never fails.  P_init_pop reads P->size: a NULL P
\* ends the process.
mokp_run_single_iteration(g, in) ==
    IF ~check_initialized(g) THEN NotInitialized(g)
    ELSE IF CreatePopFails(g.alpha, g.nf, in.oom)
            \/ CreatePopFails(g.g_params.archive_size, g.nf, in.oom)
    THEN Crash(g)
    ELSE IF g.P.null THEN Crash(NextLine(CreateTemporaries(g)))
    ELSE IF in.oom = "ind" THEN Crash(NextLine(CreateTemporaries(g)))
    ELSE IF StoresOutside(g, in.front) /\ in.overrun = "crash"
    THEN Crash(NextLine(CreateTemporaries(g)))
    ELSE Ret([FreeTemporaries(NextLine(CreateTemporaries(g)))
                 EXCEPT !.P = [g.P EXCEPT !.size = in.front],
                        !.last_time = in.tick], MOKP_SUCCESS)

RECURSIVE RunLoop(_, _, _, _)
RunLoop(r, i, max_iterations, in) ==
    IF i >= max_iterations \/ r.g.crashed \/ r.rc # MOKP_SUCCESS THEN r
    ELSE RunLoop(mokp_run_single_iteration(r.g, in), i + 1, max_iterations, in)

mokp_run_optimization(g, max_iterations, in) ==
    IF ~check_initialized(g) THEN NotInitialized(g)
    ELSE IF max_iterations < 1
    THEN Ret(set_error(g, "Invalid number of iterations"), MOKP_ERROR_INVALID_PARAMETER)
    ELSE IF g.P.null
    THEN RunLoop(mokp_initialize_population(g, in.oom), 0, max_iterations, in)
    ELSE RunLoop(Ret(g, MOKP_SUCCESS), 0, max_iterations, in)

mokp_get_pareto_size(g) ==
    IF ~check_initialized(g) THEN NotInitialized(g)
    ELSE IF g.P.null THEN Ret(g, 0)
    ELSE Ret(g, g.P.size)

mokp_get_pareto_solutions(g, isNull, max_solutions) ==
    IF ~check_initialized(g) THEN NotInitialized(g)
    ELSE IF isNull \/ max_solutions < 1
    THEN Ret(set_error(g, "Invalid solutions array or size"), MOKP_ERROR_INVALID_PARAMETER)
    ELSE IF g.P.null \/ g.P.size = 0 THEN Ret(g, 0)
    ELSE IF g.P.size < max_solutions THEN RetOut(g, g.P.size, <<g.P.size>>)
    ELSE RetOut(g, max_solutions, <<max_solutions>>)

mokp_get_population_size(g) ==
    IF ~check_initialized(g) THEN NotInitialized(g)
    ELSE Ret(g, g.alpha)

Min(a, b) == IF a < b THEN a ELSE b

\* The output is the number of items copied and the number of objectives
\* summed: the loops stop at ni and MOKP_MAX_ITEMS, at nf and
\* MOKP_MAX_OBJECTIVES.
mokp_evaluate_solution(g, isNull) ==
    IF ~check_initialized(g) THEN NotInitialized(g)
    ELSE IF isNull
    THEN Ret(set_error(g, "Invalid items array or solution pointer"),
             MOKP_ERROR_INVALID_PARAMETER)
    ELSE RetOut(g, MOKP_SUCCESS,
                <<Min(g.ni, MOKP_MAX_ITEMS), Min(g.nf, MOKP_MAX_OBJECTIVES)>>)

\* The verdict itself is mokp_is_solution_feasible above; here it is an input.
mokp_is_solution_feasible_call(g, isNull, verdict) ==
    IF ~check_initialized(g) THEN NotInitialized(g)
    ELSE IF isNull
    THEN Ret(set_error(g, "Invalid items array"), MOKP_ERROR_INVALID_PARAMETER)
    ELSE Ret(g, verdict)

mokp_get_last_iteration_time(g) == Ret(g, g.last_time)

\* Each of the two pointers is tested on its own; Unwritten stands for an
\* output the call did not write.
Unwritten == -1
mokp_get_problem_info(g, nullObjectives, nullItems) ==
    IF ~check_initialized(g) THEN NotInitialized(g)
    ELSE RetOut(g, MOKP_SUCCESS,
                <<IF nullObjectives THEN Unwritten ELSE g.nf,
                  IF nullItems THEN Unwritten ELSE g.ni>>)

mokp_get_last_error(g) == [g |-> g, rc |-> 0, out |-> <<>>, text |-> g.last_error]

mokp_get_algorithm_state(g) ==
    IF ~g.initialized THEN Ret(g, 0)
    ELSE IF g.P.null THEN Ret(g, 1)
    ELSE Ret(g, 2)

\* An output path: none, one that cannot be opened, or a writable one.
OutFiles == {"null", "unwritable", "file"}

mokp_save_results(g, file) ==
    IF ~check_initialized(g) THEN NotInitialized(g)
    ELSE IF file = "null"
    THEN Ret(set_error(g, "Invalid output file path"), MOKP_ERROR_INVALID_PARAMETER)
    ELSE IF g.P.null \/ g.P.size = 0
    THEN Ret(set_error(g, "No solutions to save"), MOKP_ERROR_INVALID_STATE)
    ELSE IF file = "unwritable"
    THEN Ret(set_error(g, "Cannot open output file for writing"), MOKP_ERROR_FILE_NOT_FOUND)
    ELSE RetOut(g, MOKP_SUCCESS, <<g.P.size, g.nf>>)

\* The three calls that work on the temporary populations.  What the
\* populations hold is not part of the globals kept here, so it is an input:
\* whether solutions has its alpha members (a population as create_pop left
\* it has none: its entries are NULL), the allocation that fails, the front a
\* fold leaves in P and the count it returns, and what a store outside an
\* array does.
AdvancedInputs ==
    { in \in [members : BOOLEAN, oom : Allocs, front : 1 .. MaxFront,
              conv : 0 .. MaxFront, overrun : {"crash", "go"}] : in.conv <= in.front }
NoAdvancedInput ==
    [members |-> FALSE, oom |-> "none", front |-> 1, conv |-> 0, overrun |-> "go"]

\* Indicator_local_search1(solutions, archive, alpha) sets SP->size = alpha
\* and folds SP: a NULL member ends the process in ind_copy.
mokp_indicator_local_search(g, in) ==
    IF ~check_initialized(g) THEN NotInitialized(g)
    ELSE IF g.solutions = "NULL" \/ g.archive = "NULL"
    THEN Ret(set_error(g, "Population not properly initialized for local search"),
             MOKP_ERROR_INVALID_STATE)
    ELSE IF ~in.members /\ g.alpha >= 1 THEN Crash(g)
    ELSE IF in.oom # "none" THEN Crash(g)
    ELSE IF (g.ni < NBITEMS \/ in.front > g.g_params.archive_size) /\ in.overrun = "crash"
    THEN Crash(g)
    ELSE Ret(g, MOKP_SUCCESS)

\* The value returned is the convergence_rate of extractPtoArchive(solutions,
\* P): the number of members of solutions taken into P, 0 when it has none.
mokp_extract_pareto_archive(g, in) ==
    IF ~check_initialized(g) THEN NotInitialized(g)
    ELSE IF g.solutions = "NULL" \/ g.P.null
    THEN Ret(set_error(g, "Population not properly initialized for Pareto extraction"),
             MOKP_ERROR_INVALID_STATE)
    ELSE IF in.oom # "none" THEN Crash(g)
    ELSE IF ~in.members THEN Ret(g, 0)
    ELSE IF in.front > g.P.maxsize /\ in.overrun = "crash" THEN Crash(g)
    ELSE Ret([g EXCEPT !.P = [g.P EXCEPT !.size = in.front]], in.conv)

mokp_update_weights(g) ==
    IF ~check_initialized(g) THEN NotInitialized(g)
    ELSE Ret(NextLine(g), MOKP_SUCCESS)

\* calcMaxbound(solutions, alpha) reads solutions->ind_array[0]->v[0]: a NULL
\* member ends the process.
mokp_compute_fitness(g, in) ==
    IF ~check_initialized(g) THEN NotInitialized(g)
    ELSE IF g.solutions = "NULL"
    THEN Ret(set_error(g, "Population not initialized for fitness computation"),
             MOKP_ERROR_INVALID_STATE)
    ELSE IF ~in.members THEN Crash(g)
    ELSE Ret(g, MOKP_SUCCESS)

\* The allocations of knapsack_create_problem, in the order made: the
\* structure, the capacities, the weights matrix and its num_objectives rows,
\* the profits matrix and its rows.  Each has its own message.
AllocationText(num_objectives, k) ==
    IF k = 0 THEN "Failed to allocate problem structure"
    ELSE IF k = 1 THEN "Failed to allocate capacities"
    ELSE IF k = 2 THEN "Failed to allocate weights matrix"
    ELSE IF k < 3 + num_objectives THEN "Failed to allocate weights row"
    ELSE IF k = 3 + num_objectives THEN "Failed to allocate profits matrix"
    ELSE "Failed to allocate profits row"
AllocationCount(num_objectives) == 4 + 2 * num_objectives

\* knapsack_create_problem (the array form of the problem loader): 1 when a
\* problem is returned, 0 when NULL is.  fail is the number of the allocation
\* in which chk_malloc returns NULL, -1 when none does.
knapsack_create_problem(num_items, num_objectives, nullArrays, fail) ==
    IF num_items <= 0 \/ num_objectives <= 0 \/ num_objectives > 4
    THEN [rc |-> 0, text |-> "Invalid number of items or objectives"]
    ELSE IF nullArrays
    THEN [rc |-> 0, text |-> "NULL pointer in input arrays"]
    ELSE IF fail \in 0 .. AllocationCount(num_objectives) - 1
    THEN [rc |-> 0, text |-> AllocationText(num_objectives, fail)]
    ELSE [rc |-> 1, text |-> ""]

\* One call through the interface: the globals it leaves, what it returned,
\* and the globals as they were when it was made.
Called(call, isNull, arg, res) ==
    /\ ~lib.g.crashed
    /\ lib.n < MaxLibCalls
    /\ lib' = [g |-> res.g, before |-> lib.g, call |-> call, isNull |-> isNull,
               arg |-> arg, rc |-> res.rc, out |-> res.out, text |-> res.text,
               n |-> lib.n + 1, pc |-> "called"]
    /\ UNCHANGED <<problemVars, restOfLibrary>>

CallInitialize ==
    Called("mokp_initialize", FALSE, DefaultParams, mokp_initialize(lib.g))

CallCleanup ==
    Called("mokp_cleanup", FALSE, DefaultParams, mokp_cleanup(lib.g))

CallLoadProblem ==
    \E file \in ProblemFiles :
        Called("mokp_load_problem", file.kind = "null", DefaultParams, mokp_load_problem(lib.g, file))

CallLoadWeights ==
    \E file \in WeightFiles :
        Called("mokp_load_weights", file.kind = "null", DefaultParams, mokp_load_weights(lib.g, file))

CallSetParameters ==
    \E isNull \in BOOLEAN, params \in ParamChoices :
        Called("mokp_set_parameters", isNull, params, mokp_set_parameters(lib.g, isNull, params))

CallGetParameters ==
    \E isNull \in BOOLEAN :
        Called("mokp_get_parameters", isNull, DefaultParams, mokp_get_parameters(lib.g, isNull))

CallInitializePopulation ==
    \E oom \in Allocs \ {"ind"} :
        Called("mokp_initialize_population", FALSE, DefaultParams, mokp_initialize_population(lib.g, oom))

CallRunSingleIteration ==
    \E in \in IterInputs :
        Called("mokp_run_single_iteration", FALSE, DefaultParams, mokp_run_single_iteration(lib.g, in))

CallRunOptimization ==
    \E n \in 0 .. MaxRun, in \in IterInputs :
        Called("mokp_run_optimization", FALSE, DefaultParams, mokp_run_optimization(lib.g, n, in))

CallGetParetoSize ==
    Called("mokp_get_pareto_size", FALSE, DefaultParams, mokp_get_pareto_size(lib.g))

CallGetParetoSolutions ==
    \E isNull \in BOOLEAN, n \in 0 .. MaxFront :
        Called("mokp_get_pareto_solutions", isNull, DefaultParams, mokp_get_pareto_solutions(lib.g, isNull, n))

CallGetPopulationSize ==
    Called("mokp_get_population_size", FALSE, DefaultParams, mokp_get_population_size(lib.g))

CallEvaluateSolution ==
    \E isNull \in BOOLEAN :
        Called("mokp_evaluate_solution", isNull, DefaultParams, mokp_evaluate_solution(lib.g, isNull))

CallIsSolutionFeasible ==
    \E isNull \in BOOLEAN, verdict \in {0, 1} :
        Called("mokp_is_solution_feasible", isNull, DefaultParams, mokp_is_solution_feasible_call(lib.g, isNull, verdict))

CallGetLastIterationTime ==
    Called("mokp_get_last_iteration_time", FALSE, DefaultParams, mokp_get_last_iteration_time(lib.g))

CallGetProblemInfo ==
    \E nullObjectives \in BOOLEAN, nullItems \in BOOLEAN :
        Called("mokp_get_problem_info", nullObjectives \/ nullItems, DefaultParams,
               mokp_get_problem_info(lib.g, nullObjectives, nullItems))

CallGetLastError ==
    Called("mokp_get_last_error", FALSE, DefaultParams, mokp_get_last_error(lib.g))

CallGetAlgorithmState ==
    Called("mokp_get_algorithm_state", FALSE, DefaultParams, mokp_get_algorithm_state(lib.g))

CallSaveResults ==
    \E file \in OutFiles :
        Called("mokp_save_results", file = "null", DefaultParams, mokp_save_results(lib.g, file))

\* The inputs of a call on the temporary populations: none is read while
\* solutions is NULL.
AdvancedChoices == IF lib.g.solutions = "NULL" THEN {NoAdvancedInput} ELSE AdvancedInputs

CallIndicatorLocalSearch ==
    \E in \in AdvancedChoices :
        Called("mokp_indicator_local_search", FALSE, DefaultParams, mokp_indicator_local_search(lib.g, in))

CallExtractParetoArchive ==
    \E in \in AdvancedChoices :
        Called("mokp_extract_pareto_archive", FALSE, DefaultParams, mokp_extract_pareto_archive(lib.g, in))

CallUpdateWeights ==
    Called("mokp_update_weights", FALSE, DefaultParams, mokp_update_weights(lib.g))

CallComputeFitness ==
    \E in \in AdvancedChoices :
        Called("mokp_compute_fitness", FALSE, DefaultParams, mokp_compute_fitness(lib.g, in))

\* knapsack_create_problem keeps no state of the library above; the counts
\* it was given are recorded in arg.
CallCreateProblem ==
    \E num_items \in {0, 1, 250}, num_objectives \in {0, 1, 2, 4, 5},
       nullArrays \in BOOLEAN, fail \in -1 .. AllocationCount(MOKP_MAX_OBJECTIVES) - 1 :
        Called("knapsack_create_problem", nullArrays,
               [DefaultParams EXCEPT !.num_items = num_items,
                                     !.num_objectives = num_objectives],
               [g |-> lib.g, out |-> <<>>,
                rc |-> knapsack_create_problem(num_items, num_objectives, nullArrays, fail).rc,
                text |-> knapsack_create_problem(num_items, num_objectives, nullArrays, fail).text])

LibraryInit ==
    /\ TestProblem
    /\ lib = [g |-> LibGlobals, before |-> LibGlobals, call |-> "none",
              isNull |-> FALSE, arg |-> DefaultParams, rc |-> 0, out |-> <<>>,
              text |-> "", n |-> 0, pc |-> "loaded"]
    /\ EvalIdle /\ CopyIdle /\ FoldIdle /\ WeightsIdle /\ SolveIdle /\ SearchIdle /\ CompareIdle /\ SelectIdle /\ WrapperIdle /\ AllocFoldIdle /\ GenerationsIdle /\ SweepIdle /\ SampleIdle

LibraryNext ==
    \/ CallInitialize
    \/ CallCleanup
    \/ CallLoadProblem
    \/ CallLoadWeights
    \/ CallSetParameters
    \/ CallGetParameters
    \/ CallInitializePopulation
    \/ CallRunSingleIteration
    \/ CallRunOptimization
    \/ CallGetParetoSize
    \/ CallGetParetoSolutions
    \/ CallGetPopulationSize
    \/ CallEvaluateSolution
    \/ CallIsSolutionFeasible
    \/ CallGetLastIterationTime
    \/ CallGetProblemInfo
    \/ CallGetLastError
    \/ CallGetAlgorithmState
    \/ CallSaveResults
    \/ CallIndicatorLocalSearch
    \/ CallExtractParetoArchive
    \/ CallUpdateWeights
    \/ CallComputeFitness
    \/ CallCreateProblem

SpecLibrary == LibraryInit /\ [][LibraryNext]_vars

\* The calls that test the initialisation gate before anything else.
GatedCalls ==
    {"mokp_load_problem", "mokp_load_weights", "mokp_set_parameters",
     "mokp_get_parameters", "mokp_initialize_population",
     "mokp_run_single_iteration", "mokp_run_optimization",
     "mokp_get_pareto_size", "mokp_get_pareto_solutions",
     "mokp_get_population_size", "mokp_evaluate_solution",
     "mokp_is_solution_feasible", "mokp_get_problem_info", "mokp_save_results",
     "mokp_indicator_local_search", "mokp_extract_pareto_archive",
     "mokp_update_weights", "mokp_compute_fitness"}

\* The parameter blocks the interface is documented to refuse.
RefusedParams(p) ==
    \/ p.num_objectives < 2 \/ p.num_objectives > 4
    \/ p.num_items <= 0 \/ p.population_size <= 0 \/ p.archive_size <= 0
    \/ p.perturbation_rate < 0 \/ p.perturbation_rate > 100

SameParameters(a, b) ==
    /\ a.g_params = b.g_params
    /\ a.nf = b.nf /\ a.ni = b.ni /\ a.alpha = b.alpha
    /\ a.perturbation_rate = b.perturbation_rate /\ a.kappa = b.kappa

\* C13: mokp_set_parameters returns MOKP_ERROR_INVALID_PARAMETER and leaves
\* g_params, nf, ni, alpha, perturbation_rate and kappa as they were whenever
\* the objective count is outside 2..4, or num_items, population_size or
\* archive_size is not positive, or perturbation_rate is outside [0,1]; and
\* knapsack_create_problem returns no problem for an objective count outside
\* 2..4.
C13_AsStated ==
    /\ (/\ lib.pc = "called" /\ lib.call = "mokp_set_parameters"
        /\ lib.before.initialized /\ ~lib.isNull /\ RefusedParams(lib.arg))
       => (/\ lib.rc = MOKP_ERROR_INVALID_PARAMETER
           /\ SameParameters(lib.before, lib.g))
    /\ (/\ lib.pc = "called" /\ lib.call = "knapsack_create_problem"
        /\ lib.arg.num_objectives \notin 2 .. 4)
       => lib.rc = 0

\* C14: while the library is not initialised, every call but mokp_initialize,
\* mokp_cleanup, mokp_get_last_error, mokp_get_last_iteration_time and
\* mokp_get_algorithm_state returns MOKP_ERROR_NOT_INITIALIZED and changes
\* nothing but the last error text.
C14_Gate ==
    (/\ lib.pc = "called" /\ ~lib.before.initialized /\ lib.call \in GatedCalls)
    => (/\ lib.rc = MOKP_ERROR_NOT_INITIALIZED
        /\ lib.out = <<>>
        /\ lib.g = [lib.before EXCEPT !.last_error = "MOKP library not initialized"])

\* A gated call made after mokp_cleanup, on a library that had been given a
\* population: it was refused.
C14_Witness ==
    /\ lib.pc = "called" /\ lib.call = "mokp_get_pareto_size"
    /\ ~lib.before.initialized /\ lib.before.last_time = 1
    /\ lib.rc = MOKP_ERROR_NOT_INITIALIZED

\* ---------------------------------------------------------------------------
\* The InitializeOptimizer / LoadProblem / RunOptimization wrapper (part_004):
\* three state flags gate every call.
\* ---------------------------------------------------------------------------
MOKP_ERROR_INVALID_INDEX == -5
paretoIni == 28000

\* The number of calls a client of the wrapper makes in one run.
MaxWrapCalls == 6

WrapGlobals ==
    [dll_initialized |-> 0, problem_loaded |-> 0, optimization_completed |-> 0,
     last_error_message |-> "", crashed |-> FALSE,
     param_population_size |-> 10, param_max_iterations |-> 100,
     param_perturbation_rate |-> 5,
     dimension |-> 2, nf |-> 0, ni |-> 0, alpha |-> 10, perturbation_rate |-> 5,
     nombreLIGNE |-> 0, nextLn |-> 0, P |-> NoPop, bounds |-> "NULL"]

set_error_message(w, message) == [w EXCEPT !.last_error_message = message]

WRet(w, rc) == [w |-> w, rc |-> rc, out |-> <<>>]
WRetOut(w, rc, out) == [w |-> w, rc |-> rc, out |-> out]
WCrash(w) == WRet([w EXCEPT !.crashed = TRUE], 0)

validate_dll_state_unoptimized(w, require_loaded, require_optimized) ==
    IF w.dll_initialized = 0
    THEN WRet(set_error_message(w, "Optimizer not initialized. Call InitializeOptimizer() first."),
              MOKP_ERROR_NOT_INITIALIZED)
    ELSE IF require_loaded = 1 /\ w.problem_loaded = 0
    THEN WRet(set_error_message(w, "Problem not loaded. Call LoadProblem() first."),
              MOKP_ERROR_INVALID_PARAMETER)
    ELSE WRet(w, MOKP_SUCCESS)

validate_dll_state(w, require_loaded, require_optimized) ==
    IF w.dll_initialized = 0
    THEN WRet(set_error_message(w, "Optimizer not initialized. Call InitializeOptimizer() first."),
              MOKP_ERROR_NOT_INITIALIZED)
    ELSE IF require_loaded = 1 /\ w.problem_loaded = 0
    THEN WRet(set_error_message(w, "Problem not loaded. Call LoadProblem() first."),
              MOKP_ERROR_INVALID_PARAMETER)
    ELSE IF require_optimized = 1 /\ w.optimization_completed = 0
    THEN WRet(set_error_message(w, "Optimization not completed. Call RunOptimization() first."),
              MOKP_ERROR_INVALID_PARAMETER)
    ELSE WRet(w, MOKP_SUCCESS)

Cleanup(w) ==
    WRet(set_error_message([w EXCEPT !.P = NoPop, !.bounds = "NULL",
                                     !.dll_initialized = 0, !.problem_loaded = 0,
                                     !.optimization_completed = 0],
                           "Cleanup completed"), 0)

InitializeOptimizerFrom(w) ==
    WRet(set_error_message([w EXCEPT !.dimension = 2, !.nf = 2, !.ni = 250,
                                     !.perturbation_rate = w.param_perturbation_rate,
                                     !.alpha = w.param_population_size,
                                     !.nombreLIGNE = 0, !.nextLn = 0,
                                     !.problem_loaded = 0, !.optimization_completed = 0,
                                     !.dll_initialized = 1],
                           "Success"), MOKP_SUCCESS)

InitializeOptimizer(w) ==
    IF w.dll_initialized # 0 THEN InitializeOptimizerFrom(Cleanup(w).w)
    ELSE InitializeOptimizerFrom(w)

\* A problem file for LoadProblem: no name, a name that cannot be opened, or a
\* file whose header gives nf and ni.
WrapFiles ==
    {[kind |-> "null", nf |-> 0, ni |-> 0], [kind |-> "missing", nf |-> 0, ni |-> 0],
     [kind |-> "file", nf |-> 3, ni |-> 100], [kind |-> "file", nf |-> 5, ni |-> 100]}

\* Which allocation of LoadProblem fails: none, the bounds array (tested), or
\* one of the two inside create_pop (written through untested).
LoadFailures == {"none", "bounds", "struct", "array"}

LoadProblem(w, file, fails) ==
    IF validate_dll_state(w, 0, 0).rc # MOKP_SUCCESS THEN validate_dll_state(w, 0, 0)
    ELSE IF file.kind = "null"
    THEN WRet(set_error_message(w, "Invalid filename parameter"), MOKP_ERROR_INVALID_PARAMETER)
    ELSE IF file.kind = "missing"
    THEN WRet(set_error_message(w, "File not found or cannot be opened"),
              MOKP_ERROR_FILE_NOT_FOUND)
    ELSE IF fails = "bounds"
    THEN WRet(set_error_message([w EXCEPT !.nf = file.nf, !.ni = file.ni,
                                          !.dimension = file.nf, !.bounds = "NULL"],
                                "Memory allocation failed for bounds"),
              MOKP_ERROR_MEMORY_ALLOCATION)
    ELSE IF CreatePopFails(paretoIni, file.nf, fails)
    THEN WCrash([w EXCEPT !.nf = file.nf, !.ni = file.ni, !.dimension = file.nf,
                          !.bounds = "set"])
    ELSE WRet(set_error_message([w EXCEPT !.nf = file.nf, !.ni = file.ni,
                                          !.dimension = file.nf, !.bounds = "set",
                                          !.P = [null |-> FALSE, size |-> 0,
                                                 maxsize |-> paretoIni],
                                          !.problem_loaded = 1,
                                          !.optimization_completed = 0],
                                "Success"), MOKP_SUCCESS)

\* (population_size, max_iterations, perturbation_rate) as passed to
\* SetParameters.
WrapParams == {<<10, 1, 5>>, <<0, 1, 5>>, <<10, 0, 5>>, <<10, 1, 150>>, <<10, 1, -5>>, <<4, 2, 10>>}

\* The parameter named perturbation_rate hides the global of that name, so
\* the last assignment of the function leaves the global as it was.
SetParameters(w, population_size, max_iterations, rate) ==
    IF validate_dll_state(w, 0, 0).rc # MOKP_SUCCESS THEN validate_dll_state(w, 0, 0)
    ELSE IF population_size <= 0 \/ max_iterations <= 0 \/ rate < 0 \/ rate > 100
    THEN WRet(set_error_message(w, "Invalid parameter values"), MOKP_ERROR_INVALID_PARAMETER)
    ELSE WRet(set_error_message([w EXCEPT !.param_population_size = population_size,
                                          !.param_max_iterations = max_iterations,
                                          !.param_perturbation_rate = rate,
                                          !.alpha = population_size],
                                "Success"), MOKP_SUCCESS)

\* The largest number of rows the run reads from its weights file.
MaxRunRows == 2

\* What a run needs from outside: whether the weights file of the dimension
\* can be opened and the number of complete rows read_weights_file finds in
\* it, the allocation that fails, and the size of the front each iteration
\* leaves in P.
RunInputs ==
    [weights : {"missing", "file"}, rows : 0 .. MaxRunRows, oom : Allocs, front : 1 .. MaxFront]

\* One pass of the loop.  create_pop never returning NULL, the test of
\* solutions and archive never fails.  LoadProblem has set NBITEMS = ni, so
\* every index the local search draws is one of the ni items.
WrapIteration(w, in) ==
    IF CreatePopFails(w.alpha, w.nf, in.oom) \/ CreatePopFails(paretoIni, w.nf, in.oom)
    THEN [w EXCEPT !.crashed = TRUE]
    ELSE IF w.P.null \/ in.oom = "ind" THEN [NextLine(w) EXCEPT !.crashed = TRUE]
    ELSE [NextLine(w) EXCEPT !.P = [w.P EXCEPT !.size = in.front]]

RECURSIVE WrapLoop(_, _, _)
WrapLoop(w, it, in) ==
    IF it >= w.param_max_iterations \/ w.crashed THEN w
    ELSE WrapLoop(WrapIteration(w, in), it + 1, in)

RunFinish(w) ==
    IF w.crashed THEN WRet(w, 0)
    ELSE WRet(set_error_message([w EXCEPT !.optimization_completed = 1], "Success"),
              MOKP_SUCCESS)

RunOptimization(w, in) ==
    IF validate_dll_state(w, 1, 0).rc # MOKP_SUCCESS THEN validate_dll_state(w, 1, 0)
    ELSE IF w.dimension \notin {2, 3, 4}
    THEN WRet(set_error_message(w, "Unsupported number of objectives"),
              MOKP_ERROR_INVALID_PARAMETER)
    ELSE IF in.weights = "missing"
    THEN WRet(set_error_message(w, "Weights file not found"), MOKP_ERROR_FILE_NOT_FOUND)
    ELSE RunFinish(WrapLoop([w EXCEPT !.nombreLIGNE = in.rows], 0, in))

GetResultCount(w) ==
    IF validate_dll_state(w, 1, 1).rc # MOKP_SUCCESS THEN validate_dll_state(w, 1, 1)
    ELSE IF w.P.null THEN WRet(w, 0)
    ELSE WRet(w, w.P.size)

GetResult(w, index, isNull) ==
    IF validate_dll_state(w, 1, 1).rc # MOKP_SUCCESS THEN validate_dll_state(w, 1, 1)
    ELSE IF w.P.null \/ index < 0 \/ index >= w.P.size
    THEN WRet(set_error_message(w, "Invalid solution index"), MOKP_ERROR_INVALID_INDEX)
    ELSE IF isNull
    THEN WRet(set_error_message(w, "Invalid output parameter pointers"),
              MOKP_ERROR_INVALID_PARAMETER)
    ELSE WRetOut(set_error_message(w, "Success"), MOKP_SUCCESS, <<index, w.nf, w.ni>>)

\* The output is results->count and results->capacity.  fail names the
\* allocation in which malloc returns NULL: -1 none, 0 the array of
\* solutions, k the arrays of member k - 1.  In the last case FreeResults
\* walks all results->count entries: those after the failing one were never
\* written, and the pointers malloc left there are passed to free (junk:
\* "crash" when the process ends there, "go" when they were NULL).
GetResults(w, isNull, fail, junk) ==
    IF validate_dll_state(w, 1, 1).rc # MOKP_SUCCESS THEN validate_dll_state(w, 1, 1)
    ELSE IF isNull
    THEN WRet(set_error_message(w, "Invalid results parameter"), MOKP_ERROR_INVALID_PARAMETER)
    ELSE IF w.P.null \/ w.P.size = 0 THEN WRetOut(w, MOKP_SUCCESS, <<0, 0>>)
    ELSE IF fail = 0
    THEN WRetOut(set_error_message(w, "Memory allocation failed for results"),
                 MOKP_ERROR_MEMORY_ALLOCATION, <<w.P.size, w.P.size>>)
    ELSE IF fail \in 1 .. w.P.size
    THEN IF fail < w.P.size /\ junk = "crash" THEN WCrash(w)
         ELSE WRetOut(set_error_message(w, "Memory allocation failed for solution data"),
                      MOKP_ERROR_MEMORY_ALLOCATION, <<0, 0>>)
    ELSE WRetOut(set_error_message(w, "Success"), MOKP_SUCCESS, <<w.P.size, w.P.size>>)

GetProblemInfo(w, isNull) ==
    IF validate_dll_state(w, 1, 0).rc # MOKP_SUCCESS THEN validate_dll_state(w, 1, 0)
    ELSE IF isNull
    THEN WRet(set_error_message(w, "Invalid output parameter pointers"),
              MOKP_ERROR_INVALID_PARAMETER)
    ELSE WRetOut(set_error_message(w, "Success"), MOKP_SUCCESS, <<w.nf, w.ni>>)

\* What has happened so far, kept beside the wrapper's own flags: loaded - a
\* LoadProblem has succeeded since the last InitializeOptimizer or Cleanup;
\* ran - RunOptimization has succeeded since the last successful LoadProblem,
\* InitializeOptimizer or Cleanup; ranCall - the same, counting every
\* LoadProblem call whether it succeeded or not.
NoHistory == [loaded |-> FALSE, ran |-> FALSE, ranCall |-> FALSE]

HistoryAfter(h, call, rc) ==
    IF call \in {"InitializeOptimizer", "Cleanup"} THEN NoHistory
    ELSE IF call = "LoadProblem"
    THEN IF rc = MOKP_SUCCESS THEN [loaded |-> TRUE, ran |-> FALSE, ranCall |-> FALSE]
         ELSE [h EXCEPT !.ranCall = FALSE]
    ELSE IF call = "RunOptimization" /\ rc = MOKP_SUCCESS
    THEN [h EXCEPT !.ran = TRUE, !.ranCall = TRUE]
    ELSE h

WCalled(call, res) ==
    /\ ~wr.w.crashed
    /\ wr.n < MaxWrapCalls
    /\ wr' = [w |-> res.w, call |-> call, rc |-> res.rc, out |-> res.out,
              was |-> wr.h,
              h |-> IF res.w.crashed THEN wr.h ELSE HistoryAfter(wr.h, call, res.rc),
              n |-> wr.n + 1, pc |-> "called"]
    /\ UNCHANGED <<problemVars, restOfWrapper>>

WrapInitializeOptimizer == WCalled("InitializeOptimizer", InitializeOptimizer(wr.w))

WrapLoadProblem ==
    \E file \in WrapFiles, fails \in LoadFailures :
        WCalled("LoadProblem", LoadProblem(wr.w, file, fails))

WrapSetParameters ==
    \E p \in WrapParams : WCalled("SetParameters", SetParameters(wr.w, p[1], p[2], p[3]))

WrapRunOptimization ==
    \E in \in RunInputs : WCalled("RunOptimization", RunOptimization(wr.w, in))

WrapGetResultCount == WCalled("GetResultCount", GetResultCount(wr.w))

WrapGetResult ==
    \E index \in -1 .. MaxFront, isNull \in BOOLEAN :
        WCalled("GetResult", GetResult(wr.w, index, isNull))

WrapGetResults ==
    \E isNull \in BOOLEAN, fail \in -1 .. MaxFront, junk \in {"crash", "go"} :
        WCalled("GetResults", GetResults(wr.w, isNull, fail, junk))

WrapGetProblemInfo ==
    \E isNull \in BOOLEAN : WCalled("GetProblemInfo", GetProblemInfo(wr.w, isNull))

WrapCleanup == WCalled("Cleanup", Cleanup(wr.w))

WrapperInit ==
    /\ TestProblem
    /\ wr = [w |-> WrapGlobals, call |-> "none", rc |-> 0, out |-> <<>>,
             was |-> NoHistory, h |-> NoHistory, n |-> 0, pc |-> "loaded"]
    /\ EvalIdle /\ CopyIdle /\ FoldIdle /\ WeightsIdle /\ SolveIdle /\ SearchIdle /\ CompareIdle /\ SelectIdle /\ LibraryIdle /\ AllocFoldIdle /\ GenerationsIdle /\ SweepIdle /\ SampleIdle

WrapperNext ==
    \/ WrapInitializeOptimizer
    \/ WrapLoadProblem
    \/ WrapSetParameters
    \/ WrapRunOptimization
    \/ WrapGetResultCount
    \/ WrapGetResult
    \/ WrapGetResults
    \/ WrapGetProblemInfo
    \/ WrapCleanup

SpecWrapper == WrapperInit /\ [][WrapperNext]_vars

ResultCalls == {"GetResultCount", "GetResult", "GetResults"}
LoadedCalls == {"RunOptimization", "GetProblemInfo"}

\* C15, as worded: GetResultCount, GetResult and GetResults succeed only if
\* RunOptimization has returned success since the most recent LoadProblem
\* call, InitializeOptimizer and Cleanup; RunOptimization and GetProblemInfo
\* succeed only after a successful LoadProblem; otherwise each returns a
\* negative code and writes no output.
C15_AsStated ==
    (wr.pc = "called" /\ ~wr.w.crashed) =>
        /\ (wr.call \in ResultCalls /\ ~wr.was.ranCall) => (wr.rc < 0 /\ wr.out = <<>>)
        /\ (wr.call \in LoadedCalls /\ ~wr.was.loaded) => (wr.rc < 0 /\ wr.out = <<>>)

\* C15, with the LoadProblem that counts being the most recent successful
\* one: a LoadProblem that fails leaves the results of the last run
\* readable.
C15_SinceSuccessfulLoad ==
    (wr.pc = "called" /\ ~wr.w.crashed) =>
        /\ (wr.call \in ResultCalls /\ ~wr.was.ran) => (wr.rc < 0 /\ wr.out = <<>>)
        /\ (wr.call \in LoadedCalls /\ ~wr.was.loaded) => (wr.rc < 0 /\ wr.out = <<>>)

\* GetResult is refused after a successful LoadProblem with no successful run
\* since it.
C15_Witness ==
    /\ wr.pc = "called" /\ wr.call = "GetResult"
    /\ wr.w.problem_loaded = 1 /\ wr.w.P.size = 0 /\ ~wr.w.P.null
    /\ ~wr.was.ran /\ wr.n >= 4
    /\ wr.rc = MOKP_ERROR_INVALID_PARAMETER /\ wr.out = <<>>

\* ---------------------------------------------------------------------------
\* extractPtoArchive when chk_malloc returns NULL.  The allocating calls of
\* one fold are numbered in the order they are made: call 0 is create_pop,
\* calls 1 .. P->size are the ind_copy of the incoming members, the following
\* ones the ind_copy of the survivors.  A member is its objective vector, or
\* NULL.
\* ---------------------------------------------------------------------------
AVals == 0 .. 1
MaxArch == 2
MaxIncoming == 2
MaxAllocs == 1 + MaxIncoming + MaxArch + MaxIncoming

AMember(fv) == [null |-> FALSE, f |-> fv]
ANull == [null |-> TRUE, f |-> [k \in ObjIdx |-> 0]]

\* The allocating calls that fail: none, one, or every call from one on.
FailChoices ==
    {{}} \cup {{k} : k \in 0 .. MaxAllocs - 1}
         \cup {k .. MaxAllocs - 1 : k \in 0 .. MaxAllocs - 1}

\* The survivor loop of the knapsack core: acc = [arr, conv, c], c the number
\* of the next allocating call.  ind_copy returns NULL when its call fails and
\* the result is stored and counted as it is.
RECURSIVE ka_KeepLoop(_, _, _, _, _, _)
ka_KeepLoop(acc, U, psize, maxsize, F, i) ==
    IF i >= Len(U) THEN acc
    ELSE IF k_ScanJ(U, i, 0) = Len(U) /\ Len(acc.arr) < maxsize
    THEN ka_KeepLoop([arr |-> Append(acc.arr, IF acc.c \in F THEN ANull ELSE U[i + 1]),
                      conv |-> IF CountsAsNew(i, Len(U), psize) THEN acc.conv + 1
                               ELSE acc.conv,
                      c |-> acc.c + 1],
                     U, psize, maxsize, F, i + 1)
    ELSE ka_KeepLoop(acc, U, psize, maxsize, F, i + 1)

\* The slots of the archive after the fold: the first Len(arr) are the ones
\* the loop stored, the others are as they were.
AStore(arch, arr) ==
    [arch EXCEPT !.size = Len(arr),
                 !.ind_array = [n \in 1 .. Len(arch.ind_array) |->
                                   IF n <= Len(arr) THEN arr[n] ELSE arch.ind_array[n]]]

AOut(arch, ret, crashed) == [archive |-> arch, ret |-> ret, crashed |-> crashed]

\* The clean-up after the survivor loop (part_001:768-771): the entries from
\* the new archive->size up to t - 1 are freed and left in the array, and
\* complete_free_pop frees every entry again; with fewer than t entries in
\* the archive an individual is freed twice, which is undefined: the
\* allocator aborts the process (abort), or does not notice and the fold
\* returns.
ka_FoldEnd(arch, kept, t, abort) ==
    AOut(AStore(arch, kept.arr), kept.conv, Len(kept.arr) < t /\ abort)

ka_extractPtoArchive(Pp, arch, F, abort) ==
    IF 0 \in F THEN AOut(arch, 0, FALSE)
    ELSE IF \E i \in 1 .. Len(Pp) : i \in F THEN AOut(arch, 0, FALSE)
    ELSE ka_FoldEnd(arch,
                    ka_KeepLoop([arr |-> <<>>, conv |-> 0, c |-> Len(Pp) + 1],
                                SubSeq(arch.ind_array, 1, arch.size) \o Pp,
                                Len(Pp), arch.maxsize, F, 0),
                    arch.size + Len(Pp), abort)

\* The survivor loop of the first core: create_ind and ind_copy write through
\* what chk_malloc returned, so the first failing call ends the process; acc
\* carries `crashed`.
RECURSIVE a_KeepLoop(_, _, _, _, _)
a_KeepLoop(acc, U, psize, F, i) ==
    IF i >= Len(U) \/ acc.crashed THEN acc
    ELSE IF ScanJ(U, i, 0) = Len(U)
    THEN a_KeepLoop([arr |-> IF acc.c \in F THEN acc.arr ELSE Append(acc.arr, U[i + 1]),
                     conv |-> IF CountsAsNew(i, Len(U), psize) /\ acc.c \notin F
                              THEN acc.conv + 1 ELSE acc.conv,
                     c |-> acc.c + 1, crashed |-> acc.c \in F],
                    U, psize, F, i + 1)
    ELSE a_KeepLoop(acc, U, psize, F, i + 1)

a_FoldEnd(arch, kept) == AOut(AStore(arch, kept.arr), kept.conv, kept.crashed)

a_extractPtoArchive(Pp, arch, F) ==
    IF 0 \in F THEN AOut(arch, 0, TRUE)
    ELSE IF \E i \in 1 .. Len(Pp) : i \in F THEN AOut(arch, 0, TRUE)
    ELSE a_FoldEnd(arch,
                   a_KeepLoop([arr |-> <<>>, conv |-> 0, c |-> Len(Pp) + 1, crashed |-> FALSE],
                              SubSeq(arch.ind_array, 1, arch.size) \o Pp,
                              Len(Pp), F, 0))

AVectors == [ObjIdx -> AVals]
ADominated(a, b) ==
    /\ \A k \in ObjIdx : a[k] <= b[k]
    /\ \E k \in ObjIdx : a[k] < b[k]

\* The archives a fold is given: up to MaxArch distinct members none of which
\* dominates another, in an array with room for the incoming ones.
AFronts ==
    {s \in UNION {[1 .. n -> AVectors] : n \in 0 .. MaxArch} :
        \A i, j \in 1 .. Len(s) : i # j => (s[i] # s[j] /\ ~ADominated(s[i], s[j]))}

AArchive(s, maxsize) ==
    [size |-> Len(s), maxsize |-> maxsize,
     ind_array |-> [n \in 1 .. maxsize |-> IF n <= Len(s) THEN AMember(s[n]) ELSE ANull]]

AIncoming == UNION {[1 .. n -> AVectors] : n \in 1 .. MaxIncoming}

AllocFoldInit ==
    /\ TestProblem
    /\ \E s \in AFronts, p \in AIncoming, F \in FailChoices,
          core \in {"part_003", "part_001"} :
          af = [core |-> core, F |-> F,
                P |-> [n \in 1 .. Len(p) |-> AMember(p[n])],
                before |-> AArchive(s, MaxArch + MaxIncoming),
                archive |-> AArchive(s, MaxArch + MaxIncoming),
                ret |-> 0, crashed |-> FALSE, pc |-> "ready"]
    /\ EvalIdle /\ CopyIdle /\ FoldIdle /\ WeightsIdle /\ SolveIdle /\ SearchIdle /\ CompareIdle /\ SelectIdle /\ LibraryIdle /\ WrapperIdle /\ GenerationsIdle /\ SweepIdle /\ SampleIdle

AFolded(res) ==
    /\ af' = [af EXCEPT !.archive = res.archive, !.ret = res.ret,
                        !.crashed = res.crashed, !.pc = "folded"]
    /\ UNCHANGED <<problemVars, restOfAllocFold>>

AllocFoldCore ==
    /\ af.pc = "ready" /\ af.core = "part_003"
    /\ AFolded(a_extractPtoArchive(af.P, af.archive, af.F))

AllocFoldKnapsack ==
    /\ af.pc = "ready" /\ af.core = "part_001"
    /\ \E abort \in BOOLEAN : AFolded(ka_extractPtoArchive(af.P, af.archive, af.F, abort))

AllocFoldNext == AllocFoldCore \/ AllocFoldKnapsack

SpecAllocFold == AllocFoldInit /\ [][AllocFoldNext]_vars

\* The members an archive counts, and the vectors the fold was given.
ACounted(arch) == {arch.ind_array[n] : n \in 1 .. arch.size}
AGiven == ACounted(af.before) \cup {af.P[n] : n \in 1 .. Len(af.P)}

\* A valid archive after the fold: no counted member is NULL, and the counted
\* members are exactly the given vectors no given vector dominates.
AValid ==
    /\ \A m \in ACounted(af.archive) : ~m.null
    /\ ACounted(af.archive) = {m \in AGiven : \A o \in AGiven : ~ADominated(m.f, o.f)}

\* C16: when an allocation fails during a fold, the call that returns leaves
\* either a valid archive or the archive exactly as it was: the size is not
\* reset, no old member is lost and no NULL member is counted.
C16_AsStated ==
    (af.pc = "folded" /\ af.F # {} /\ ~af.crashed)
        => (AValid \/ af.archive = af.before)

\* ---------------------------------------------------------------------------
\* The generation loop: `for (i = 0; i < max_iterations; i++)` around one
\* generation (mokp_dll.c:316-321, part_004:164-190).  The count the last
\* fold of a generation returns is an input here; the loops do not read it.
\* ---------------------------------------------------------------------------
MaxBudget == 4
MaxNew == 2

\* The number of trailing generations whose last fold returned 0.
RECURSIVE TrailingZeros(_)
TrailingZeros(convs) ==
    IF convs = <<>> \/ convs[Len(convs)] # 0 THEN 0
    ELSE 1 + TrailingZeros(SubSeq(convs, 1, Len(convs) - 1))

\* `i < max_iterations`, the only test of both loops.
LoopGoesOn(i, max_iterations, convs) == i < max_iterations

\* How a generation can end: mokp_run_single_iteration (or the body of the
\* wrapper's loop) comes back with a return code, or the process ends in it.
\* create_pop (part_003:77-83) and create_ind (95-106) write through what
\* chk_malloc returned, so a failed allocation ends the process; with
\* ni < NBITEMS the local search indexes Items with irand(NBITEMS)
\* (part_003:519-522) and its store outside the array is undefined: the
\* process is aborted on the damaged heap, or goes on.  create_pop never
\* returns NULL, so no code other than MOKP_SUCCESS is handed to the loop.
GenerationEndings == [died : BOOLEAN, result : {MOKP_SUCCESS}]

\* The body of the loop for one generation that handed back `e` and whose last
\* fold returned conv: `if (result != MOKP_SUCCESS) return result;`
\* (mokp_dll.c:317-320; part_004:169-172 for the wrapper), else i++.
\* stagnant records that two consecutive generations had returned 0 before
\* this one started, late counts the generations run after that.
LoopBody(g, e, conv) ==
    IF e.died THEN [g EXCEPT !.pc = "crashed"]
    ELSE IF e.result # MOKP_SUCCESS THEN [g EXCEPT !.rc = e.result, !.pc = "returned"]
    ELSE [g EXCEPT !.i = g.i + 1,
                   !.convs = Append(g.convs, conv),
                   !.stagnant = g.stagnant \/ TrailingZeros(g.convs) >= 2,
                   !.late = IF g.stagnant \/ TrailingZeros(g.convs) >= 2
                            THEN g.late + 1 ELSE g.late]

GenerationsInit ==
    /\ TestProblem
    /\ \E max_iterations \in 1 .. MaxBudget,
          loop \in {"mokp_run_optimization", "RunOptimization"} :
          gl = [loop |-> loop, max_iterations |-> max_iterations, i |-> 0,
                convs |-> <<>>, stagnant |-> FALSE, late |-> 0, rc |-> MOKP_SUCCESS,
                pc |-> "running"]
    /\ EvalIdle /\ CopyIdle /\ FoldIdle /\ WeightsIdle /\ SolveIdle /\ SearchIdle /\ CompareIdle /\ SelectIdle /\ LibraryIdle /\ WrapperIdle /\ AllocFoldIdle /\ SweepIdle /\ SampleIdle

\* One generation.
Generation ==
    /\ gl.pc = "running"
    /\ LoopGoesOn(gl.i, gl.max_iterations, gl.convs)
    /\ \E e \in GenerationEndings, conv \in 0 .. MaxNew :
          gl' = LoopBody(gl, e, conv)
    /\ UNCHANGED <<problemVars, restOfGenerations>>

\* `return MOKP_SUCCESS;` after the loop.
RunReturns ==
    /\ gl.pc = "running"
    /\ ~LoopGoesOn(gl.i, gl.max_iterations, gl.convs)
    /\ gl' = [gl EXCEPT !.rc = MOKP_SUCCESS, !.pc = "returned"]
    /\ UNCHANGED <<problemVars, restOfGenerations>>

GenerationsNext == Generation \/ RunReturns

SpecGenerations == GenerationsInit /\ [][GenerationsNext]_vars

\* C17: the loop ends as soon as the budget is used up or two consecutive
\* generations have returned convergence 0; no generation is run after two
\* consecutive generations contributed nothing new.
C17_AsStated == gl.pc # "idle" => gl.late = 0

\* ---------------------------------------------------------------------------
\* evaluate against a reference pack written from the order d alone.
\* ---------------------------------------------------------------------------
RECURSIVE SumOver(_, _)
SumOver(row, S) ==
    IF S = {} THEN 0
    ELSE SumOver(row, S \ {CHOOSE i \in S : TRUE}) + row[CHOOSE i \in S : TRUE]

\* The set of items packed so far, with one more item offered.
RefOffer(S, item) ==
    IF \A k \in ObjIdx : SumOver(weights[k], S) + weights[k][item] <= capacities[k]
    THEN S \cup {item} ELSE S

\* The items packed after the first j entries of d were offered in turn.
RECURSIVE RefPack(_, _)
RefPack(d, j) == IF j = 0 THEN {} ELSE RefOffer(RefPack(d, j - 1), d[j - 1])

\* What evaluate computes: Items, the totals and the two counts.
Packed(x) == <<x.Items, x.f, x.capa, x.nombr, x.nombr_nonpris>>

IsRefPack(x, S) ==
    /\ \A i \in ItemIdx : x.Items[i] = IF i \in S THEN 1 ELSE 0
    /\ \A k \in ObjIdx : x.f[k] = SumOver(profits[k], S)
    /\ \A k \in ObjIdx : x.capa[k] = SumOver(weights[k], S)
    /\ x.nombr = Cardinality(S)
    /\ x.nombr + x.nombr_nonpris = NI

\* C18: after evaluate(x), on an order d, x holds the greedy first-fit pack
\* of d: item d[j] is included exactly when its weight fits every capacity
\* on top of the items committed before it, f and capa are the sums over the
\* included items and nombr + nombr_nonpris = ni.  The result depends on d
\* alone: a second evaluate changes nothing, a move made on Items in between
\* is overwritten, and the evaluate of the knapsack core gives the same from
\* whatever the arrays held.
C18_GreedyPack ==
    (epc \in {"evaluated", "reevaluated", "repacked"} /\ ex.d \in Perms) =>
        /\ IsRefPack(ex, RefPack(ex.d, NI))
        /\ evaluate(ex) = ex
        /\ Packed(k_evaluate(ex)) = Packed(ex)
        /\ \A jk \in PriorJunk :
              /\ Packed(evaluate([FreshInd(jk[1], jk[2]) EXCEPT !.d = ex.d])) = Packed(ex)
              /\ Packed(k_evaluate([FreshInd(jk[1], jk[2]) EXCEPT !.d = ex.d])) = Packed(ex)

\* C18 witness: an individual evaluated again after a move, in a pack that
\* took one item and refused another because of the items before it.
C18_Witness ==
    /\ epc = "repacked"
    /\ ex.nombr >= 1 /\ ex.nombr_nonpris >= 1
    /\ \E i \in ItemIdx : ex.Items[i] = 0 /\ RefOffer({}, i) = {i}


\* A removal step ended with the trial rejected, and the unwind left the
\* trial's Items, f, capa, nombr and nombr_nonpris as they were before it.
UnwindRestores ==
    (lpc = "step" /\ step.unwound) => Packed(trial) = Packed(step.before)

MaxSweep  == 3
MaxTrials == 2
MaxSteps  == 2

SwIds == 1 .. MaxSweep + MaxTrials
SwSize == Len(sw.SP)
SwHeld == {sw.SP[n].id : n \in 1 .. SwSize}
SwZero == [id \in SwIds |-> 0]
SwNoTrial == [nombr |-> 0, explored |-> FALSE]

\* SP->ind_array[slot] = ind_copy(x) (part_003:420): a new individual with
\* the fields of x, its explored flag among them.
SwStore(sp, at, id, x) ==
    [n \in 1 .. Len(sp) |-> IF n = at + 1 THEN [id |-> id, explored |-> x.explored] ELSE sp[n]]

\* y = SP[i + 1]; SP[i + 1] = SP[sol]; SP[sol] = y.
SwSwap(sp, a, b) ==
    [n \in 1 .. Len(sp) |-> IF n = a + 1 THEN sp[b + 1] ELSE IF n = b + 1 THEN sp[a + 1] ELSE sp[n]]

\* `if (sol > i)`: the test that guards the swap and the cursor's increment.
SwapWanted(sol, i) == sol > i

\* The do-loop starts after the first fold of SP; members copied from the
\* archive carry the explored flag they had there.  range is the value of
\* NBITEMS: 250 under the library of mokp_dll.c, ni under the wrapper, which
\* sets NBITEMS = ni when it loads a problem (part_004:93).
SweepInit ==
    /\ TestProblem
    /\ \E members \in 1 .. MaxSweep, range \in {NI, NBITEMS} :
       \E flags \in [1 .. members -> BOOLEAN] :
          sw = [SP |-> [n \in 1 .. members |-> [id |-> n, explored |-> flags[n]]],
                i |-> 0, j |-> 0, x |-> SwNoTrial, range |-> range,
                convergence |-> 0, dirty |-> FALSE,
                start |-> 1 .. members, evicted |-> {}, accepted |-> {}, slipped |-> {},
                visits |-> SwZero, sawNew |-> FALSE, inRange |-> TRUE,
                nextId |-> members + 1, pc |-> "cursor"]
    /\ EvalIdle /\ CopyIdle /\ FoldIdle /\ WeightsIdle /\ SolveIdle /\ SearchIdle /\ CompareIdle /\ SelectIdle /\ LibraryIdle /\ WrapperIdle /\ AllocFoldIdle /\ GenerationsIdle /\ SampleIdle

SwVisited(id) == [sw.visits EXCEPT ![id] = @ + 1]

\* j = convergence; convergence = extractPtoArchive(SP, Sarchive); then i++.
\* The fold allocates (create_pop, ind_copy) and writes through what
\* chk_malloc returned: when an allocation fails (oom) the process ends.
SwFolded(s, r, oom) ==
    IF oom THEN [s EXCEPT !.pc = "crashed"]
    ELSE [s EXCEPT !.j = s.convergence, !.convergence = r, !.dirty = FALSE,
                   !.sawNew = s.sawNew \/ r # 0,
                   !.i = s.i + 1, !.pc = "cursor"]
SwFoldResults == IF sw.dirty THEN 0 .. 1 ELSE {0}

\* SP[i] is explored: only the fold.
SweepSkip ==
    /\ sw.pc = "cursor" /\ sw.i < SwSize
    /\ sw.SP[sw.i + 1].explored
    /\ \E r \in SwFoldResults, oom \in BOOLEAN :
          sw' = SwFolded([sw EXCEPT !.visits = SwVisited(sw.SP[sw.i + 1].id)], r, oom)
    /\ UNCHANGED <<problemVars, restOfSweep>>

\* SP[i] is not explored: x = ind_copy(SP[i]), with its explored flag and its
\* nombr; `for (j = 0; j < x->nombr; j++)` starts.
SweepCopy ==
    /\ sw.pc = "cursor" /\ sw.i < SwSize
    /\ ~sw.SP[sw.i + 1].explored
    /\ \E nombr \in 0 .. MaxSteps, oom \in BOOLEAN :
          sw' = IF oom THEN [sw EXCEPT !.pc = "crashed"]
                ELSE [sw EXCEPT !.visits = SwVisited(sw.SP[sw.i + 1].id),
                                !.x = [nombr |-> nombr, explored |-> sw.SP[sw.i + 1].explored],
                                !.j = 0, !.pc = "trial"]
    /\ UNCHANGED <<problemVars, restOfSweep>>

\* A removal step whose draws irand(NBITEMS) (part_003:519, 536) ended on an
\* index outside Items, which has ni entries: the store of line 522 or 561
\* writes outside the array.  The behaviour is undefined: the process is
\* aborted on the damaged heap ("crashed"), or goes on with memory this
\* model does not describe ("overrun"); neither is followed further.
SweepOverrun ==
    /\ sw.pc = "trial" /\ sw.j < sw.x.nombr
    /\ NI < sw.range
    /\ \E end \in {"crashed", "overrun"} : sw' = [sw EXCEPT !.pc = end]
    /\ UNCHANGED <<problemVars, restOfSweep>>

\* A removal step for which compute_fitness_and_select returned -1, with the
\* worst member replaced by a copy of the trial (worst >= 0) or not
\* (worst = -1).  The unwind gives x->nombr the value it had before the step
\* (-1, + taille, + 1, - taille); then j++.
SweepRejected ==
    /\ sw.pc = "trial" /\ sw.j < sw.x.nombr
    /\ \E worst \in -1 .. SwSize - 1, oom \in BOOLEAN :
          IF worst = -1
          THEN /\ ~oom
               /\ sw' = [sw EXCEPT !.j = sw.j + 1]
          ELSE /\ sw.nextId <= MaxSweep + MaxTrials
               /\ sw' = IF oom THEN [sw EXCEPT !.pc = "crashed"]
                         ELSE [sw EXCEPT !.j = sw.j + 1,
                                         !.SP = SwStore(sw.SP, worst, sw.nextId, sw.x),
                                         !.evicted = sw.evicted \cup {sw.SP[worst + 1].id},
                                         !.slipped = sw.slipped \cup {sw.nextId},
                                         !.nextId = sw.nextId + 1,
                                         !.dirty = TRUE]
    /\ UNCHANGED <<problemVars, restOfSweep>>

\* The numbers of items a removal step can put in: one attempt in each of the
\* L rounds, and only items that were excluded before the step, of which
\* there are ni - x->nombr (the item taken out is not put back).
SwPuts(x) == 0 .. Min(L, NI - x.nombr)

\* A removal step that put `put` items in and for which
\* compute_fitness_and_select returned the slot sol: a copy of the trial is
\* in SP[sol]; j = x->nombr + 1, and the j++ of the loop follows; when
\* sol > i the copy is swapped to i + 1 and the cursor moves onto it.
SweepAccepted ==
    /\ sw.pc = "trial" /\ sw.j < sw.x.nombr
    /\ sw.nextId <= MaxSweep + MaxTrials
    /\ \E sol \in 0 .. SwSize - 1, put \in SwPuts(sw.x), oom \in BOOLEAN :
       \E sp \in {SwStore(sw.SP, sol, sw.nextId, sw.x)} :
          sw' = IF oom THEN [sw EXCEPT !.pc = "crashed"]
                ELSE [sw EXCEPT !.SP = IF SwapWanted(sol, sw.i) THEN SwSwap(sp, sw.i + 1, sol) ELSE sp,
                                !.i = IF SwapWanted(sol, sw.i) THEN sw.i + 1 ELSE sw.i,
                                !.inRange = sw.inRange /\ (SwapWanted(sol, sw.i) => sw.i + 1 < SwSize),
                                !.evicted = sw.evicted \cup {sw.SP[sol + 1].id},
                                !.accepted = sw.accepted \cup {sw.nextId},
                                !.nextId = sw.nextId + 1,
                                !.dirty = TRUE,
                                !.x = [sw.x EXCEPT !.nombr = sw.x.nombr - 1 + put],
                                !.j = (sw.x.nombr - 1 + put + 1) + 1]
    /\ UNCHANGED <<problemVars, restOfSweep>>

\* SP[i] with its explored flag set.
SwMarked(sp, i) ==
    [n \in 1 .. Len(sp) |-> IF n = i + 1 THEN [id |-> sp[n].id, explored |-> TRUE] ELSE sp[n]]

\* The end of the loop over j: tmp_pris = x->nombr; free_ind(x);
\* `if (j == tmp_pris) SP->ind_array[i]->explored = 1;` (part_003:618-622);
\* then the fold.
SweepExhausted ==
    /\ sw.pc = "trial" /\ sw.j >= sw.x.nombr
    /\ \E r \in SwFoldResults, oom \in BOOLEAN :
          sw' = SwFolded([sw EXCEPT !.SP = IF sw.j = sw.x.nombr THEN SwMarked(sw.SP, sw.i)
                                            ELSE sw.SP,
                                    !.x = SwNoTrial], r, oom)
    /\ UNCHANGED <<problemVars, restOfSweep>>

\* `while (convergence)`: the value the last fold of the pass returned.
PassGoesOn(s) == s.convergence # 0

\* The end of a pass: another pass.
SweepNextPass ==
    /\ sw.pc = "cursor" /\ sw.i >= SwSize
    /\ PassGoesOn(sw)
    /\ sw' = [sw EXCEPT !.i = 0, !.convergence = 0, !.start = SwHeld,
                        !.evicted = {}, !.accepted = {}, !.slipped = {},
                        !.visits = SwZero, !.sawNew = FALSE]
    /\ UNCHANGED <<problemVars, restOfSweep>>

\* The end of a pass: Indicator_local_search1 returns.
SweepReturn ==
    /\ sw.pc = "cursor" /\ sw.i >= SwSize
    /\ ~PassGoesOn(sw)
    /\ sw' = [sw EXCEPT !.pc = "returned"]
    /\ UNCHANGED <<problemVars, restOfSweep>>

SweepNext ==
    \/ SweepSkip
    \/ SweepCopy
    \/ SweepOverrun
    \/ SweepRejected
    \/ SweepAccepted
    \/ SweepExhausted
    \/ SweepNextPass
    \/ SweepReturn

SpecSweep == SweepInit /\ [][SweepNext]_vars

\* C21: Indicator_local_search1 returns only after a completed pass in which
\* every fold returned 0; a pass in which some fold returned a non-zero count
\* is followed by another pass.
C21_AsStated == sw.pc = "returned" => ~sw.sawNew

\* The state at the end of a pass, before `while (convergence)` is tested.
PassDone == sw.pc = "cursor" /\ sw.i >= SwSize

\* Every member SP held at the start of the pass and still holds was visited
\* by the cursor exactly once, and the indices used stayed in [0, SP->size).
SweptOnce ==
    /\ \A id \in sw.start \ sw.evicted : sw.visits[id] = 1
    /\ sw.inRange

\* C23: within one pass, whatever slots the trials replace (before, at or
\* after the cursor), every member SP held at the start of the pass and not
\* evicted is swept exactly once, no trial that entered SP during the pass is
\* swept in that pass, and the cursor and the swap stay within [0, SP->size).
C23_AsStated ==
    PassDone => (SweptOnce /\ \A id \in sw.accepted \cup sw.slipped : sw.visits[id] = 0)

\* ---------------------------------------------------------------------------
\* P_init_pop(SP, Sarchive, alpha) on archives of 0..MaxHeld members and
\* alpha in 1..MaxAlpha (part_003:463-494).  Archive member n carries
\* fitness n, as left by an earlier search, so that a copy can be told
\* from the others; a new individual has the fitness -1 of create_ind.
\* ---------------------------------------------------------------------------
MaxHeld  == 3
MaxAlpha == 3
MaxFresh == 2

HeldMember(n, order) == [evaluate([FreshInd(0, 0) EXCEPT !.d = order]) EXCEPT !.fitness = n]
HeldArchive(held, orders) ==
    [alloc |-> TRUE, size |-> held, maxsize |-> MaxHeld,
     ind_array |-> [n \in 1 .. held |-> HeldMember(n, orders[n])]]

SampleInit ==
    /\ TestProblem
    /\ \E held \in 0 .. MaxHeld, a \in 1 .. MaxAlpha :
       \E orders \in [1 .. held -> SearchOrders] :
          /\ a - held <= MaxFresh
          /\ ip = [Sarchive |-> HeldArchive(held, orders), before |-> HeldArchive(held, orders),
                alpha |-> a, SP |-> create_pop(a), pc |-> "created"]
    /\ EvalIdle /\ CopyIdle /\ FoldIdle /\ WeightsIdle /\ SolveIdle /\ SearchIdle /\ CompareIdle /\ SelectIdle /\ LibraryIdle /\ WrapperIdle /\ AllocFoldIdle /\ GenerationsIdle /\ SweepIdle

\* P_init_pop(SP, Sarchive, alpha): xs are the values irand(alpha) returns in
\* the shuffle, ds the orders random_init_ind leaves in the new individuals
\* it creates, jv what their v arrays hold.
Sample ==
    /\ ip.pc = "created"
    /\ \E xs \in [0 .. Max(ip.alpha, ip.Sarchive.size) - 1 -> 0 .. ip.alpha - 1],
          ds \in [1 .. NewCount(ip.Sarchive, ip.alpha) -> Perms],
          jv \in [1 .. NewCount(ip.Sarchive, ip.alpha) -> JunkV] :
          ip' = [ip EXCEPT !.SP = P_init_pop(ip.Sarchive, ip.alpha, xs, ds, jv),
                           !.pc = "filled"]
    /\ UNCHANGED <<problemVars, restOfSample>>

SampleNext == Sample

SpecSample == SampleInit /\ [][SampleNext]_vars

\* The slots of SP that hold a copy of an archive member, and the archive
\* index a slot was copied from.
CopiedSlots == {n \in 1 .. ip.SP.size : ip.SP.ind_array[n].fitness # -1}
CopiedFrom(n) == ip.SP.ind_array[n].fitness - 1

\* A new individual, random-initialised and evaluated: d is a permutation and
\* the rest is the pack evaluate computes from it; v is as malloc left it.
FreshEvaluated(x) ==
    /\ x.d \in Perms
    /\ x = evaluate([FreshInd(0, 0) EXCEPT !.d = x.d, !.v = x.v])

\* C22: P_init_pop fills exactly alpha slots and leaves the archive as it
\* was; the archive indices it copies are pairwise distinct and within
\* [0, archive size); when the archive has at most alpha members, every
\* member is copied exactly once and every other slot holds a new individual,
\* random-initialised and evaluated.
C22_Sampled ==
    ip.pc = "filled" =>
        /\ ip.SP.size = ip.alpha /\ Len(ip.SP.ind_array) = ip.alpha
        /\ ip.Sarchive = ip.before
        /\ \A n \in CopiedSlots :
              /\ CopiedFrom(n) \in 0 .. ip.Sarchive.size - 1
              /\ ip.SP.ind_array[n] = CopyVal(ip.Sarchive.ind_array[CopiedFrom(n) + 1])
        /\ \A n, o \in CopiedSlots : n # o => CopiedFrom(n) # CopiedFrom(o)
        /\ ip.Sarchive.size <= ip.alpha =>
              /\ \A k \in 0 .. ip.Sarchive.size - 1 :
                    Cardinality({n \in CopiedSlots : CopiedFrom(n) = k}) = 1
              /\ \A n \in (1 .. ip.alpha) \ CopiedSlots : FreshEvaluated(ip.SP.ind_array[n])
        /\ ip.Sarchive.size > ip.alpha => CopiedSlots = 1 .. ip.alpha

\* A call on an archive smaller than alpha that copied both members into
\* slots other than their own and filled a slot with a new individual.
C22_Witness ==
    /\ ip.pc = "filled"
    /\ ip.Sarchive.size = 2 /\ ip.alpha = 3
    /\ Cardinality(CopiedSlots) = 2
    /\ \A n \in CopiedSlots : CopiedFrom(n) # n - 1

\* The search stays within the memory of its objects: no index drawn has led
\* to a store outside x->Items.
WithinItems == lpc \notin {"crashed", "overrun"}

\* mokp_is_solution_feasible(items).
RECURSIVE total_weight(_, _, _)
total_weight(items, j, i) ==
    IF i >= NI THEN 0
    ELSE (IF items[i] = 1 THEN DllWeight(j, i) ELSE 0) + total_weight(items, j, i + 1)
mokp_is_solution_feasible(items) ==
    IF \E j \in ObjIdx : total_weight(items, j, 0) > capacities[j] THEN 0 ELSE 1

\* The weights of the selected items sum to at most the capacity in every
\* objective.
WithinCapacities(items) ==
    \A k \in ObjIdx : SumOver(weights[k], {i \in ItemIdx : items[i] = 1}) <= capacities[k]

Attempted == lpc \in {"insert", "select"} /\ step.IM > 0 /\ step.drawn \in ItemIdx

\* The items put in so far in this removal step.
PutIn == {step.remplace[r] : r \in 0 .. step.taille - 1}

\* An attempt that put nothing in left the trial as it was, so the drawn item
\* is judged on the trial as it is: excluded, not the item just removed,
\* within every capacity, and not put in earlier in this step.
Insertable(p) ==
    /\ trial.Items[p] = 0
    /\ p # step.mino
    /\ Fits(trial, p)
    /\ p \notin PutIn

\* C24: an insertion attempt that draws an excluded item which is not the
\* item just removed, fits every capacity and was not put in earlier in this
\* removal step puts it in, with f, capa and the counts updated; a removal
\* step puts in at most L items.
C24_AsStated ==
    /\ (Attempted /\ ~step.put) => ~Insertable(step.drawn)
    /\ (Attempted /\ step.put) =>
          /\ trial.Items[step.drawn] = 1
          /\ \A k \in ObjIdx :
                /\ trial.f[k] = step.before.f[k] - ProfitOf(k, step.mino)
                                  + SumOver(profits[k], PutIn)
                /\ trial.capa[k] = step.before.capa[k] - WeightOf(k, step.mino)
                                  + SumOver(weights[k], PutIn)
          /\ trial.nombr = step.before.nombr - 1 + step.taille
          /\ trial.nombr + trial.nombr_nonpris = step.before.nombr + step.before.nombr_nonpris
    /\ step.taille <= L

\* The three calls that work on the temporary populations.
TemporaryCalls ==
    {"mokp_indicator_local_search", "mokp_extract_pareto_archive", "mokp_compute_fitness"}

\* When a call has returned, solutions and archive are NULL.
TemporariesGone ==
    (lib.pc = "called" /\ ~lib.g.crashed)
        => (lib.g.solutions = "NULL" /\ lib.g.archive = "NULL")

\* C25, as stated: at the return of every public call the globals solutions
\* and archive are NULL, and mokp_indicator_local_search,
\* mokp_extract_pareto_archive and mokp_compute_fitness return
\* MOKP_ERROR_INVALID_STATE whenever they are called.
C25_AsStated ==
    /\ TemporariesGone
    /\ (lib.pc = "called" /\ lib.call \in TemporaryCalls)
          => lib.rc = MOKP_ERROR_INVALID_STATE

\* C25, as the code has it: at the return of every public call the globals
\* solutions and archive are NULL, and the three calls return
\* MOKP_ERROR_INVALID_STATE whenever the library is initialised and
\* MOKP_ERROR_NOT_INITIALIZED when it is not; they never run.
C25_TemporariesGone ==
    /\ TemporariesGone
    /\ (lib.pc = "called" /\ lib.call \in TemporaryCalls)
          => /\ lib.rc = IF lib.before.initialized THEN MOKP_ERROR_INVALID_STATE
                         ELSE MOKP_ERROR_NOT_INITIALIZED
             /\ SameParameters(lib.before, lib.g)
             /\ lib.g.P = lib.before.P

\* One of the three calls made after a generation that succeeded: refused.
C25_Witness ==
    /\ lib.pc = "called" /\ lib.call \in TemporaryCalls
    /\ lib.before.initialized /\ lib.before.last_time = 1
    /\ ~lib.before.P.null /\ lib.before.P.size >= 1
    /\ lib.rc = MOKP_ERROR_INVALID_STATE

\* knapsack_solve after random_init_pop, rebuilt from the initial population:
\* the heap, the working population, and what the final fold alone (the run
\* with max_iterations = 0) makes of them.
KInitialHeap ==
    [a \in KAddr |-> IF a <= Len(kinit) THEN [live |-> TRUE, val |-> kinit[a]] ELSE KDead]
KInitialPop ==
    [alloc |-> TRUE, size |-> Len(kinit), maxsize |-> Len(kinit),
     ind_array |-> [n \in 1 .. Len(kinit) |-> n]]
KFoldAlone == k_extractPtoArchive(KInitialHeap, KInitialPop, create_pop(Len(kinit) * 10), {})

\* The perturbation of simple_local_search leaves Items, f and capa of every
\* working individual as they were, whichever item is flipped.
PerturbationIdle ==
    kpc = "search" =>
        \A n \in 1 .. ksol.size, item \in ItemIdx :
            Sol(Perturb(kheap[ksol.ind_array[n]].val, item)) = Sol(kheap[ksol.ind_array[n]].val)

\* C26: in knapsack_solve the perturbation of simple_local_search has no
\* effect: every working individual has the same Items, f and capa after an
\* iteration as before it, and for a given initial population (one the final
\* fold alone handles without fault) the call returns, for every
\* max_iterations, the objective vectors it returns for max_iterations = 0.
C26_AsStated ==
    /\ PerturbationIdle
    /\ KDone =>
          \E alone \in {KFoldAlone} :
             ~alone.df =>
                  /\ kpc = "returned"
                  /\ { kres.sols[n].objectives : n \in KResults }
                       = { alone.h[alone.archive.ind_array[n]].val.f : n \in 1 .. alone.archive.size }

\* The totals of x agree with its selection: Items holds 0 and 1 only, f and
\* capa are the sums over the items with Items[i] = 1, nombr counts them and
\* nombr + nombr_nonpris = ni.
TotalsAgree(x) == IsRefPack(x, {i \in ItemIdx : x.Items[i] = 1})

\* The members of the working population and of the generation's archive,
\* and the trial when it is handed to compute_fitness_and_select.
TotalsAgreeEverywhere ==
    /\ \A n \in 1 .. solutions.size : TotalsAgree(solutions.ind_array[n])
    /\ \A n \in 1 .. archive.size : TotalsAgree(archive.ind_array[n])
    /\ lpc = "select" => TotalsAgree(trial)

KPointed(pp) == {pp.ind_array[n] : n \in 1 .. pp.size}

\* A fold that frees as it should: no individual is freed twice, the members
\* of the archive it leaves and of the incoming population are live, and the
\* individuals that were live before and are in neither have been released.
FoldFreesOnce(h, Pp, r) ==
    /\ ~r.df
    /\ \A a \in KPointed(r.archive) \cup KPointed(Pp) : r.h[a].live
    /\ \A a \in KAddr \ (KPointed(r.archive) \cup KPointed(Pp)) : ~r.h[a].live

\* C28: a fold never frees an individual twice and never frees one that stays
\* reachable from the archive or from the incoming population, whatever the
\* number of survivors: every temporary individual is released exactly once
\* and every member of the archive after the fold is live.
C28_AsStated ==
    kpc = "loop" =>
        \E r \in {k_extractPtoArchive(kheap, ksol, karch, {})} : FoldFreesOnce(kheap, ksol, r)

\* a is covered by b: dominated by it, or of the same objective vector.
CoveredBy(a, b) == DominatedBy(a, b) \/ a.f = b.f

\* C29: when the survivors fit the archive, after a fold every element of the
\* combined set, old archive member or incoming individual, is dominated by
\* or equal in objectives to a member of the new archive; fold after fold,
\* what was once in P stays covered by P.
C29_NoRegress ==
    (fpc = "folded" /\ P.size <= P.maxsize) =>
        \A i \in UIdx : \E m \in Members : CoveredBy(UAt(i), P.ind_array[m])

\* A fold in which a member of the old archive gave way to an incoming
\* individual that dominates it.
C29_Witness ==
    /\ fpc = "folded" /\ P.size <= P.maxsize
    /\ \E i \in UIdx \ Incoming :
          /\ i \notin Kept
          /\ \E m \in Members : DominatedBy(UAt(i), P.ind_array[m])

\* mokp_run_single_iteration was called on an initialised library that has
\* no main archive (mokp_get_algorithm_state() == 1).
IterationWithoutArchive ==
    /\ lib.pc = "called" /\ lib.call = "mokp_run_single_iteration"
    /\ mokp_get_algorithm_state(lib.before).rc = 1

\* C30: mokp_run_single_iteration called while the library is initialised
\* and P is NULL returns an error code without running the search and
\* without using P.
C30_AsStated ==
    IterationWithoutArchive =>
        /\ ~lib.g.crashed
        /\ lib.rc < 0
        /\ lib.g.P = lib.before.P
        /\ lib.g.nextLn = lib.before.nextLn

====
